---- MODULE Spec2Model ----
(***************************************************************************)
(* The endless-runner simulation of src/services/engine.ts (GameEngine).   *)
(*                                                                         *)
(* Numbers.  The engine computes in floating point; the model computes in  *)
(* fixed point.  Lengths, positions and velocities are integers in units   *)
(* of 1/Unit (Unit = 10000), so every constant of src/constants            *)
(* (0.045, 0.65, 0.18, 0.0002, ...) is an exact integer.  Times are        *)
(* milliseconds.  A value returned by Math.random() is an integer r in     *)
(* 0..99 standing for r/100.  shakeIntensity is in units of 1/1000000.     *)
(* The two multiplications by 0.85 (friction, shake decay) truncate        *)
(* towards zero.                                                           *)
(*                                                                         *)
(* Environment.  The engine is driven by a caller (update's input and      *)
(* deltaTime) and by Math.random.  An environment record fixes the         *)
(* bounded sets both are drawn from; every specification below is the      *)
(* same engine under some of the environments.                             *)
(***************************************************************************)
EXTENDS Integers, Sequences, FiniteSets, Bags, TLC

VARIABLES
  engine,   \* the GameEngine object: its fields, as a record
  ticks,    \* number of update calls since the last reset (bounds the run)
  last,     \* the last call made on the engine and its arguments
  scenario, \* the environment the engine runs in (fixed along a behaviour)
  held,     \* the snapshot a consumer of getState holds, if any
  app,      \* the App component and its GameCanvas: screen, frame loop, scores
  probe     \* one call of a function on arguments of its own, and its result

vars == <<engine, ticks, last, scenario, held, app, probe>>

----------------------------------------------------------------------------
(* Fixed point *)

Unit == 100 * 100

Abs(n) == IF n < 0 THEN -n ELSE n

Min(a, b) == IF a < b THEN a ELSE b

\* n * num / den, truncated towards zero
MulDiv(n, num, den) ==
  IF n < 0 THEN -((-n * num) \div den) ELSE (n * num) \div den

----------------------------------------------------------------------------
(* src/constants *)

LANE_WIDTH == 12000
GRAVITY == 450
JUMP_FORCE == 6500
MOVE_ACCEL_X == 300
FRICTION_X == 85
MAX_SPEED_X == 3000
CAMERA_TILT_FACTOR == 50
BASE_LEVEL_TARGET == 5
LEVEL_TARGET_INCREMENT == 3

Difficulty == {"EASY", "MEDIUM", "HARD"}

\* obstacleChance in hundredths, as the values of Math.random()
DIFFICULTY_SETTINGS ==
  [EASY   |-> [startSpeed |-> 1200, maxSpeed |-> 5000,  accel |-> 1,
               obstacleChance |-> 10],
   MEDIUM |-> [startSpeed |-> 1800, maxSpeed |-> 8000,  accel |-> 2,
               obstacleChance |-> 15],
   HARD   |-> [startSpeed |-> 2500, maxSpeed |-> 12000, accel |-> 4,
               obstacleChance |-> 25]]

\* 2000 * sin(z), truncated towards zero, for z = 1..60: the
\* 0.2 * Math.sin(z) of a gold block's height, in fixed point (|sin z| < 1
\* for every integer z > 0, and so is every entry below 2000)
SinTable ==
  <<1682, 1818, 282, -1513, -1917, -558, 1313, 1978, 824, -1088,
    -1999, -1073, 840, 1981, 1300, -575, -1922, -1501, 299, 1825,
    1673, -17, -1692, -1811, -264, 1525, 1912, 541, -1327, -1976,
    -808, 1102, 1999, 1058, -856, -1983, -1287, 592, 1927, 1490,
    -317, -1833, -1663, 35, 1701, 1803, 247, -1536, -1907, -524,
    1340, 1973, 791, -1117, -1999, -1043, 872, 1985, 1273, -609>>

Sin2000(z) == IF z \in 1..Len(SinTable) THEN SinTable[z] ELSE 0

----------------------------------------------------------------------------
(* The random source.  One slice generation consumes up to five values of  *)
(* Math.random(), in this order: lane, rand, the obstacle pick, the stack  *)
(* test, the stack's type.                                                 *)

NoDraw == [lane |-> 50, rand |-> 90, pick |-> 0, stack |-> 0, stackType |-> 0]

\* Math.floor(r * n) for r = 0.rr
FloorMul(r, n) == (r * n) \div 100

----------------------------------------------------------------------------
(* GameEngine.spawnParticles: count particles of life 1.0 (100 hundredths) *)
(* at the origin; `moved' counts the integration steps applied to the      *)
(* particle's position since (its velocity is random and not modelled).    *)

NewParticle(pos, color) ==
  [position |-> pos, moved |-> 0, life |-> 100, color |-> color]

RECURSIVE Repeat(_, _)
Repeat(x, n) == IF n = 0 THEN <<>> ELSE <<x>> \o Repeat(x, n - 1)

spawnParticles(s, pos, color, count) ==
  [s EXCEPT !.particles = @ \o Repeat(NewParticle(pos, color), count)]

----------------------------------------------------------------------------
(* GameEngine.generateSlice *)

GroundTile(z, x) ==
  [id |-> <<"ground", z, x>>, type |-> "GRASS",
   position |-> [x |-> x * LANE_WIDTH, y |-> -Unit, z |-> z * Unit],
   size |-> Unit, collected |-> FALSE]

GroundRow(z) == [i \in 1..5 |-> GroundTile(z, i - 3)]

\* mutant: the mobs are in the pool from level 1 on
availableObstaclesAtAnyLevel(level) ==
  <<"STONE", "TNT", "CREEPER", "SKELETON">>

availableObstacles(level) ==
  <<"STONE", "TNT">>
    \o (IF level >= 2 THEN <<"CREEPER">> ELSE <<>>)
    \o (IF level >= 3 THEN <<"SKELETON">> ELSE <<>>)

obstacleChance(difficulty, level) ==
  Min(DIFFICULTY_SETTINGS[difficulty].obstacleChance + level, 40)

\* the entities placed beyond the ground row (z > 10)
SliceSpawn(difficulty, level, z, d) ==
  LET lane == FloorMul(d.lane, 3) - 1
      xPos == lane * LANE_WIDTH
      pool == availableObstacles(level)
      type == pool[FloorMul(d.pick, Len(pool)) + 1]
      obs  == [id |-> <<"obs", z, 0>>, type |-> type,
               position |-> [x |-> xPos, y |-> 0, z |-> z * Unit],
               size |-> Unit, collected |-> FALSE]
      stk  == [id |-> <<"obs_stack", z, 0>>,
               type |-> IF d.stackType > 50 THEN "TNT" ELSE "STONE",
               position |-> [x |-> xPos, y |-> Unit, z |-> z * Unit],
               size |-> Unit, collected |-> FALSE]
      gold == [id |-> <<"gold", z, 0>>, type |-> "GOLD",
               position |-> [x |-> xPos,
                             y |-> Unit \div 2 + Sin2000(z),
                             z |-> z * Unit],
               size |-> Unit \div 2, collected |-> FALSE]
  IN  IF d.rand < obstacleChance(difficulty, level)
      THEN <<obs>> \o (IF d.stack > 70 /\ type \notin {"CREEPER", "SKELETON"}
                       THEN <<stk>> ELSE <<>>)
      ELSE IF d.rand > 50 /\ d.rand < 80 THEN <<gold>> ELSE <<>>

generateSlice(s, z, d) ==
  [s EXCEPT !.entities =
      @ \o GroundRow(z)
        \o (IF z > 10 THEN SliceSpawn(s.difficulty, s.level, z, d) ELSE <<>>)]

----------------------------------------------------------------------------
(* GameEngine.reset *)

InitialSlices == 25

NewPlayer ==
  [position |-> [x |-> 0, y |-> 0, z |-> 0],
   velocity |-> [x |-> 0, y |-> 0, z |-> 0],
   isJumping |-> FALSE, tilt |-> 0, jumpCount |-> 0,
   phaseActive |-> FALSE, phaseTimeRemaining |-> 0, phaseCooldown |-> 0]

RECURSIVE GenerateFrom(_, _, _)
\* for (let z = from; z < 25; z++) this.generateSlice(z)
GenerateFrom(s, z, draws) ==
  IF z >= InitialSlices THEN s
  ELSE GenerateFrom(generateSlice(s, z, IF z > 10 THEN draws[z] ELSE NoDraw),
                    z + 1, draws)

\* mutant: the speed is not taken from the difficulty reset is called with
ResetStateAtMediumSpeed(difficulty, draws) ==
  GenerateFrom(
    [difficulty |-> difficulty, player |-> NewPlayer,
     entities |-> <<>>, particles |-> <<>>,
     currentSpeed |-> DIFFICULTY_SETTINGS["MEDIUM"].startSpeed,
     lastGenZ |-> 5, score |-> 0, lives |-> 3, level |-> 1,
     goldCollectedInLevel |-> 0, levelTarget |-> BASE_LEVEL_TARGET,
     gameWon |-> FALSE, shakeIntensity |-> 0,
     lastJumpInput |-> FALSE, lastPhaseInput |-> FALSE],
    0, draws)

\* draws: the random values of the slices 11..24
ResetState(difficulty, draws) ==
  GenerateFrom(
    [difficulty |-> difficulty,
     player |-> NewPlayer,
     entities |-> <<>>,
     particles |-> <<>>,
     currentSpeed |-> DIFFICULTY_SETTINGS[difficulty].startSpeed,
     lastGenZ |-> 5,
     score |-> 0,
     lives |-> 3,
     level |-> 1,
     goldCollectedInLevel |-> 0,
     levelTarget |-> BASE_LEVEL_TARGET,
     gameWon |-> FALSE,
     shakeIntensity |-> 0,
     lastJumpInput |-> FALSE,
     lastPhaseInput |-> FALSE],
    0, draws)

----------------------------------------------------------------------------
(* GameEngine.handleCollision, on the entity at index i of s.entities *)

HitColor(type) ==
  IF type = "CREEPER" THEN "#0DA70D"
  ELSE IF type = "SKELETON" THEN "#E3E3E3" ELSE "#7D7D7D"

ShakeOnTNT == 500000

\* mutant: the win needs more than 250
CollectGoldAbove250(s, i) ==
  LET e  == s.entities[i]
      s1 == [s EXCEPT !.entities[i].collected = TRUE,
                      !.score = @ + 10,
                      !.goldCollectedInLevel = @ + 1]
      s2 == spawnParticles(s1, e.position, "#FCEE4B", 10)
  IN  IF s2.score > 250 THEN [s2 EXCEPT !.gameWon = TRUE] ELSE s2

CollectGold(s, i) ==
  LET e  == s.entities[i]
      s1 == [s EXCEPT !.entities[i].collected = TRUE,
                      !.score = @ + 10,
                      !.goldCollectedInLevel = @ + 1]
      s2 == spawnParticles(s1, e.position, "#FCEE4B", 10)
  IN  IF s2.score >= 250 THEN [s2 EXCEPT !.gameWon = TRUE] ELSE s2

HitObstacle(s, i) ==
  LET e  == s.entities[i]
      s1 == [s EXCEPT !.lives = @ - 1, !.entities[i].collected = TRUE]
  IN  IF e.type = "TNT"
      THEN spawnParticles(
             spawnParticles(
               spawnParticles(
                 spawnParticles([s1 EXCEPT !.shakeIntensity = ShakeOnTNT],
                                e.position, "#DB3625", 20),
                 e.position, "#FF8C00", 20),
               e.position, "#FFFF00", 15),
             e.position, "#FFFFFF", 10)
      ELSE spawnParticles(s1, e.position, HitColor(e.type), 20)

\* mutant: the phase test is missing
handleCollisionPhaseless(s, i) ==
  LET e == s.entities[i]
  IN  IF e.type = "GOLD" THEN CollectGold(s, i)
      ELSE IF ~e.collected THEN HitObstacle(s, i)
      ELSE s

handleCollision(s, i) ==
  LET e == s.entities[i]
  IN  IF e.type = "GOLD" THEN CollectGold(s, i)
      ELSE IF s.player.phaseActive THEN s
      ELSE IF ~e.collected THEN HitObstacle(s, i)
      ELSE s

----------------------------------------------------------------------------
(* GameEngine.checkCollisions *)

PlayerW == 6000
PlayerH == 9000
PlayerD == 6000

\* mutant: touching boxes overlap
OverlapsWhenTouching(p, e) ==
  /\ 2 * Abs(p.position.x - e.position.x) <= PlayerW + e.size
  /\ 2 * Abs(p.position.y - e.position.y) <= PlayerH + e.size
  /\ 2 * Abs(p.position.z - e.position.z) <= PlayerD + e.size

\* the three per-axis comparisons of the player's box against entity e
Overlaps(p, e) ==
  /\ 2 * Abs(p.position.x - e.position.x) < PlayerW + e.size
  /\ 2 * Abs(p.position.y - e.position.y) < PlayerH + e.size
  /\ 2 * Abs(p.position.z - e.position.z) < PlayerD + e.size

\* mutant: collected entities are not skipped
CollidingAgain(s) ==
  LET p  == s.player
      es == s.entities
  IN  SelectSeq([i \in 1..Len(es) |-> i], LAMBDA i : Overlaps(p, es[i]))

\* the indices, in list order, of the entities the loop dispatches: handling
\* one entity changes neither the player's box nor another entity's flag
Colliding(s) ==
  LET p  == s.player
      es == s.entities
  IN  SelectSeq([i \in 1..Len(es) |-> i],
                LAMBDA i : ~es[i].collected /\ Overlaps(p, es[i]))

RECURSIVE HandleAll(_, _, _)
HandleAll(s, hits, k) ==
  IF k > Len(hits) THEN s
  ELSE HandleAll(handleCollision(s, hits[k]), hits, k + 1)

\* for (const entity of this.entities)
checkCollisions(s) == HandleAll(s, Colliding(s), 1)

----------------------------------------------------------------------------
(* GameEngine.updateParticles *)

ParticleLifeStep == 5

AgeParticle(p) ==
  [p EXCEPT !.moved = @ + 1, !.life = @ - ParticleLifeStep]

\* mutant: a particle whose life has reached 0 stays in the list
updateParticlesKeepingDead(s) ==
  LET aged == [i \in 1..Len(s.particles) |-> AgeParticle(s.particles[i])]
  IN  [s EXCEPT !.particles = SelectSeq(aged, LAMBDA p : p.life >= 0)]

updateParticles(s) ==
  LET aged == [i \in 1..Len(s.particles) |-> AgeParticle(s.particles[i])]
  IN  [s EXCEPT !.particles = SelectSeq(aged, LAMBDA p : p.life > 0)]

----------------------------------------------------------------------------
(* GameEngine.update, step by step in the order of the code.  Each step    *)
(* maps the engine record to the engine record.                            *)

\* Decay Shake: 0.001 is 1000 millionths
DecayShake(s) ==
  [s EXCEPT !.shakeIntensity =
      IF @ > 1000 THEN MulDiv(@, 85, 100) ELSE 0]

PhaseDuration == 5000
PhaseCooldown == 10000

\* mutant: the phase timer runs out without ending the phase
UpdateAbilitiesNeverOff(s, dt) ==
  LET p == s.player
  IN  [s EXCEPT !.player.phaseTimeRemaining =
                   IF @ > 0 THEN @ - dt ELSE @,
                !.player.phaseCooldown = IF @ > 0 THEN @ - dt ELSE @]

\* Update Abilities
UpdateAbilities(s, dt) ==
  LET p  == s.player
      t1 == IF p.phaseTimeRemaining > 0
            THEN p.phaseTimeRemaining - dt ELSE p.phaseTimeRemaining
      a1 == IF p.phaseTimeRemaining > 0 /\ t1 <= 0 THEN FALSE
            ELSE p.phaseActive
      c1 == IF p.phaseCooldown > 0 THEN p.phaseCooldown - dt
            ELSE p.phaseCooldown
  IN  [s EXCEPT !.player.phaseTimeRemaining = t1,
                !.player.phaseActive = a1,
                !.player.phaseCooldown = c1]

\* mutant: activation starts no cooldown
ActivatePhaseWithoutCooldown(s, input) ==
  LET phasePressed == input.phase /\ ~s.lastPhaseInput
      s1 == [s EXCEPT !.lastPhaseInput = input.phase]
  IN  IF phasePressed /\ s.player.phaseCooldown <= 0
      THEN spawnParticles(
             [s1 EXCEPT !.player.phaseActive = TRUE,
                        !.player.phaseTimeRemaining = PhaseDuration],
             s.player.position, "#00FFFF", 20)
      ELSE s1

\* mutant: no edge detection, a held key activates again
ActivatePhaseWhileHeld(s, input) ==
  LET s1 == [s EXCEPT !.lastPhaseInput = input.phase]
  IN  IF input.phase /\ s.player.phaseCooldown <= 0
      THEN spawnParticles(
             [s1 EXCEPT !.player.phaseActive = TRUE,
                        !.player.phaseTimeRemaining = 5000,
                        !.player.phaseCooldown = 10000],
             s.player.position, "#00FFFF", 20)
      ELSE s1

\* Activate Phase
ActivatePhase(s, input) ==
  LET phasePressed == input.phase /\ ~s.lastPhaseInput
      s1 == [s EXCEPT !.lastPhaseInput = input.phase]
  IN  IF phasePressed /\ s.player.phaseCooldown <= 0
      THEN spawnParticles(
             [s1 EXCEPT !.player.phaseActive = TRUE,
                        !.player.phaseTimeRemaining = PhaseDuration,
                        !.player.phaseCooldown = PhaseCooldown],
             s.player.position, "#00FFFF", 20)
      ELSE s1

\* mutant: a level-up sets the speed to the bound of the bump
LevelUpToTheBumpBound(s) ==
  LET settings == DIFFICULTY_SETTINGS[s.difficulty]
  IN  IF s.goldCollectedInLevel >= s.levelTarget
      THEN [s EXCEPT !.level = @ + 1,
                     !.goldCollectedInLevel = 0,
                     !.levelTarget = @ + LEVEL_TARGET_INCREMENT,
                     !.currentSpeed =
                        IF s.difficulty # "EASY"
                        THEN settings.maxSpeed + 2000
                        ELSE @]
      ELSE s

\* mutant: a level-up leaves the target as it is
LevelUpKeepingTarget(s) ==
  LET settings == DIFFICULTY_SETTINGS[s.difficulty]
  IN  IF s.goldCollectedInLevel >= s.levelTarget
      THEN [s EXCEPT !.level = @ + 1,
                     !.goldCollectedInLevel = 0,
                     !.currentSpeed =
                        IF s.difficulty # "EASY"
                        THEN Min(@ + 500, settings.maxSpeed + 2000)
                        ELSE @]
      ELSE s

\* mutant: the level is raised only above the target
LevelUpAboveTarget(s) ==
  LET settings == DIFFICULTY_SETTINGS[s.difficulty]
  IN  IF s.goldCollectedInLevel > s.levelTarget
      THEN [s EXCEPT !.level = @ + 1,
                     !.goldCollectedInLevel = 0,
                     !.levelTarget = @ + LEVEL_TARGET_INCREMENT,
                     !.currentSpeed =
                        IF s.difficulty # "EASY"
                        THEN Min(@ + 500, settings.maxSpeed + 2000)
                        ELSE @]
      ELSE s

\* 1. Leveling Logic (Gold Based)
LevelUp(s) ==
  LET settings == DIFFICULTY_SETTINGS[s.difficulty]
  IN  IF s.goldCollectedInLevel >= s.levelTarget
      THEN [s EXCEPT !.level = @ + 1,
                     !.goldCollectedInLevel = 0,
                     !.levelTarget = @ + LEVEL_TARGET_INCREMENT,
                     !.currentSpeed =
                        IF s.difficulty # "EASY"
                        THEN Min(@ + 500, settings.maxSpeed + 2000)
                        ELSE @]
      ELSE s

\* Calculate target speed
targetSpeed(s) ==
  LET settings == DIFFICULTY_SETTINGS[s.difficulty]
  IN  IF s.difficulty # "EASY"
      THEN Min(settings.startSpeed + (s.level - 1) * 400, settings.maxSpeed)
      ELSE settings.startSpeed

\* mutant: the speed is eased towards the target from above as well
AccelerateBothWays(s) ==
  IF s.currentSpeed < targetSpeed(s)
  THEN [s EXCEPT !.currentSpeed = @ + DIFFICULTY_SETTINGS[s.difficulty].accel]
  ELSE IF s.currentSpeed > targetSpeed(s)
  THEN [s EXCEPT !.currentSpeed = @ - DIFFICULTY_SETTINGS[s.difficulty].accel]
  ELSE s

\* Smooth acceleration to target speed
Accelerate(s) ==
  IF s.currentSpeed < targetSpeed(s)
  THEN [s EXCEPT !.currentSpeed = @ + DIFFICULTY_SETTINGS[s.difficulty].accel]
  ELSE s

\* 2. Move Player Forward
MoveForward(s) ==
  [s EXCEPT !.player.position.z = @ + s.currentSpeed]

\* 3. Lateral Physics (Inertia-based)
MAX_X == (LANE_WIDTH * 18) \div 10

ClampVelocityX(v) ==
  IF v > MAX_SPEED_X THEN MAX_SPEED_X
  ELSE IF v < -MAX_SPEED_X THEN -MAX_SPEED_X ELSE v

\* mutant: the position is clamped at the walls, the velocity is kept
LateralSliding(s, input) ==
  LET v0 == s.player.velocity.x
      v1 == IF input.left THEN v0 - MOVE_ACCEL_X ELSE v0
      v2 == IF input.right THEN v1 + MOVE_ACCEL_X ELSE v1
      v3 == ClampVelocityX(MulDiv(v2, FRICTION_X, 100))
      x1 == s.player.position.x + v3
  IN  [s EXCEPT !.player.position.x =
                   IF x1 < -MAX_X THEN -MAX_X
                   ELSE IF x1 > MAX_X THEN MAX_X ELSE x1,
                !.player.velocity.x = v3,
                !.player.tilt = MulDiv(-v3, CAMERA_TILT_FACTOR, 100)]

Lateral(s, input) ==
  LET v0 == s.player.velocity.x
      v1 == IF input.left THEN v0 - MOVE_ACCEL_X ELSE v0
      v2 == IF input.right THEN v1 + MOVE_ACCEL_X ELSE v1
      v3 == ClampVelocityX(MulDiv(v2, FRICTION_X, 100))
      x1 == s.player.position.x + v3
      tilt == MulDiv(-v3, CAMERA_TILT_FACTOR, 100)
  IN  IF x1 < -MAX_X
      THEN [s EXCEPT !.player.position.x = -MAX_X,
                     !.player.velocity.x = 0,
                     !.player.tilt = tilt]
      ELSE IF x1 > MAX_X
      THEN [s EXCEPT !.player.position.x = MAX_X,
                     !.player.velocity.x = 0,
                     !.player.tilt = tilt]
      ELSE [s EXCEPT !.player.position.x = x1,
                     !.player.velocity.x = v3,
                     !.player.tilt = tilt]

\* 4. Jump & Gravity (Double Jump Logic): the impulse
DoubleJumpForce == (JUMP_FORCE * 9) \div 10

\* mutant: no edge detection, a held key jumps again
JumpWhileHeld(s, input) ==
  LET s1 == [s EXCEPT !.lastJumpInput = input.jump]
  IN  IF ~input.jump THEN s1
      ELSE IF ~s.player.isJumping
      THEN [s1 EXCEPT !.player.velocity.y = JUMP_FORCE,
                      !.player.isJumping = TRUE,
                      !.player.jumpCount = 1]
      ELSE IF s.player.jumpCount < 2
      THEN spawnParticles(
             [s1 EXCEPT !.player.velocity.y = DoubleJumpForce,
                        !.player.jumpCount = 2],
             s.player.position, "#FFFFFF", 8)
      ELSE s1

\* mutant: the second impulse is allowed at jumpCount 2 as well
JumpUnlimited(s, input) ==
  LET jumpPressed == input.jump /\ ~s.lastJumpInput
      s1 == [s EXCEPT !.lastJumpInput = input.jump]
  IN  IF ~jumpPressed THEN s1
      ELSE IF ~s.player.isJumping
      THEN [s1 EXCEPT !.player.velocity.y = JUMP_FORCE,
                      !.player.isJumping = TRUE,
                      !.player.jumpCount = 1]
      ELSE IF s.player.jumpCount <= 2
      THEN spawnParticles(
             [s1 EXCEPT !.player.velocity.y = DoubleJumpForce,
                        !.player.jumpCount = 2],
             s.player.position, "#FFFFFF", 8)
      ELSE s1

Jump(s, input) ==
  LET jumpPressed == input.jump /\ ~s.lastJumpInput
      s1 == [s EXCEPT !.lastJumpInput = input.jump]
  IN  IF ~jumpPressed THEN s1
      ELSE IF ~s.player.isJumping
      THEN [s1 EXCEPT !.player.velocity.y = JUMP_FORCE,
                      !.player.isJumping = TRUE,
                      !.player.jumpCount = 1]
      ELSE IF s.player.jumpCount < 2
      THEN spawnParticles(
             [s1 EXCEPT !.player.velocity.y = DoubleJumpForce,
                        !.player.jumpCount = 2],
             s.player.position, "#FFFFFF", 8)
      ELSE s1

\* mutant: landing does not clear jumpCount
GravityKeepingCount(s) ==
  LET vy == s.player.velocity.y - GRAVITY
      y  == s.player.position.y + vy
  IN  IF y <= 0
      THEN [s EXCEPT !.player.position.y = 0,
                     !.player.velocity.y = 0,
                     !.player.isJumping = FALSE]
      ELSE [s EXCEPT !.player.position.y = y,
                     !.player.velocity.y = vy]

\* gravity, vertical integration and Ground Collision
Gravity(s) ==
  LET vy == s.player.velocity.y - GRAVITY
      y  == s.player.position.y + vy
  IN  IF y <= 0
      THEN [s EXCEPT !.player.position.y = 0,
                     !.player.velocity.y = 0,
                     !.player.isJumping = FALSE,
                     !.player.jumpCount = 0]
      ELSE [s EXCEPT !.player.position.y = y,
                     !.player.velocity.y = vy]

\* 5. World Generation
renderDistance == 25

\* mutant: slices are generated up to 15 units ahead
WorldGenerationNearer(s, d) ==
  IF s.player.position.z + 15 * Unit > s.lastGenZ * Unit
  THEN [generateSlice(s, s.lastGenZ, d) EXCEPT !.lastGenZ = @ + 1]
  ELSE s

WorldGeneration(s, d) ==
  IF s.player.position.z + renderDistance * Unit > s.lastGenZ * Unit
  THEN [generateSlice(s, s.lastGenZ, d) EXCEPT !.lastGenZ = @ + 1]
  ELSE s

\* Cleanup behind
CleanupMargin == 5

Cleanup(s) ==
  LET limit == s.player.position.z - CleanupMargin * Unit
  IN  [s EXCEPT !.entities = SelectSeq(@, LAMBDA e : e.position.z > limit)]

\* the steps of update up to the world generation, d the random values of
\* this call's slice: each step is applied to the value the step before it
\* has left
Generated(s, input, dt, d) ==
  CHOOSE out \in
    {WorldGeneration(s9, d) : s9 \in
    {Gravity(s8) : s8 \in
    {Jump(s7, input) : s7 \in
    {Lateral(s6, input) : s6 \in
    {MoveForward(s5) : s5 \in
    {Accelerate(s4) : s4 \in
    {LevelUp(s3) : s3 \in
    {ActivatePhase(s2, input) : s2 \in
    {UpdateAbilities(s1, dt) : s1 \in
    {DecayShake(s)}}}}}}}}}} : TRUE

\* the body of update
RunUpdate(s, input, dt, d) ==
  CHOOSE out \in
    {updateParticles(s12) : s12 \in
    {checkCollisions(s11) : s11 \in
    {Cleanup(s10) : s10 \in
    {Generated(s, input, dt, d)}}}} : TRUE

\* mutant: the game-won test is missing
UpdateStateWhenWon(s, input, dt, d) == RunUpdate(s, input, dt, d)

\* update(input, deltaTime): if (this.gameWon) return
UpdateState(s, input, dt, d) ==
  IF s.gameWon THEN s ELSE RunUpdate(s, input, dt, d)

\* GameEngine.getState: the snapshot's derived fields
getState(s) ==
  [entities |-> s.entities, particles |-> s.particles, player |-> s.player,
   score |-> s.score, lives |-> s.lives, speed |-> s.currentSpeed,
   level |-> s.level, distance |-> s.player.position.z,
   isPlaying |-> s.lives > 0 /\ ~s.gameWon,
   gameOver |-> s.lives <= 0,
   gameWon |-> s.gameWon,
   goldCollected |-> s.goldCollectedInLevel,
   levelTarget |-> s.levelTarget,
   shakeIntensity |-> s.shakeIntensity]

----------------------------------------------------------------------------
(* The snapshot of getState in the hands of its consumer.  getState        *)
(* returns this.player, this.entities and this.particles themselves, not   *)
(* copies: the snapshot shares the player object with the engine until     *)
(* reset makes a new one, and the two arrays until the engine replaces     *)
(* them (update's two filter calls, reset); the entity and particle        *)
(* objects in the arrays stay shared until reset.  `frozen' is what        *)
(* getState returned, `seen' what the consumer reads through the snapshot  *)
(* now.                                                                    *)

NoSnapshot == [taken |-> FALSE]

View(s) ==
  [player |-> getState(s).player,
   entities |-> getState(s).entities,
   particles |-> getState(s).particles]

TakeSnapshot(s) ==
  [taken |-> TRUE, frozen |-> View(s), seen |-> View(s),
   arrays |-> TRUE, objects |-> TRUE]

\* update(input, dt) on the engine in state s: the player is changed in
\* place; generateSlice and spawnParticles push onto the arrays the engine
\* holds at that time; handleCollision sets the collected flag of entity
\* objects (an entity behind the cleanup limit is too far to collide);
\* updateParticles ages the particle objects of the engine's list (those
\* with life > 0) in place
HeldAfterUpdate(h, s, input, dt, d) ==
  IF ~h.taken \/ ~h.objects \/ s.gameWon THEN h
  ELSE
    LET gen     == Generated(s, input, dt, d)
        cleaned == Cleanup(gen)
        list    == IF h.arrays THEN gen.entities ELSE h.seen.entities
        hit     == checkCollisions([cleaned EXCEPT !.entities = list])
        before  == checkCollisions(cleaned).particles
        parts   == IF h.arrays
                   THEN [i \in DOMAIN before |-> AgeParticle(before[i])]
                   ELSE [i \in DOMAIN h.seen.particles |->
                           IF h.seen.particles[i].life > 0
                           THEN AgeParticle(h.seen.particles[i])
                           ELSE h.seen.particles[i]]
    IN  [h EXCEPT !.seen = [player |-> RunUpdate(s, input, dt, d).player,
                            entities |-> hit.entities,
                            particles |-> parts],
                  !.arrays = FALSE]

\* reset gives the engine a new player object and new, empty arrays
HeldAfterReset(h) ==
  IF h.taken THEN [h EXCEPT !.arrays = FALSE, !.objects = FALSE] ELSE h

----------------------------------------------------------------------------
(* The App component (src/App.tsx) and the frame loop of its GameCanvas    *)
(* (src/components/GameCanvas.tsx), as one record:                         *)
(*   mounted             the App is mounted                                *)
(*   appState            MENU, HELP, PLAYING or GAME_OVER; the GameCanvas  *)
(*                       is mounted exactly while it is PLAYING            *)
(*   selectedDifficulty, finalScore, highScores    the App's state         *)
(*   inputState          the keys as the key handlers have recorded them   *)
(*   pending             a frame is requested (requestRef) and not         *)
(*                       cancelled                                         *)
(* and, for the record of what has happened:                               *)
(*   sessions            the sessions started so far                       *)
(*   gameOvers           the calls of onGameOver in the current session    *)
(*   drawn               the last frame callback has drawn the scene       *)
(*   submitted           the bag of the scores passed to handleGameOver    *)
(*   keyboard            the keys the user holds down                      *)
(*   unhandled           the keys pressed during play since the last frame *)
(*                       that handleKeyDown has no case for                *)
(* A high score is modelled by its score and difficulty (the name and the  *)
(* date are not read by the code).                                         *)

NoKeys == [left |-> FALSE, right |-> FALSE, jump |-> FALSE]

AppStart ==
  [mounted |-> TRUE, appState |-> "MENU", selectedDifficulty |-> "MEDIUM",
   finalScore |-> 0, highScores |-> <<>>, pending |-> FALSE,
   inputState |-> NoKeys,
   sessions |-> 0, gameOvers |-> 0, drawn |-> FALSE, submitted |-> EmptyBag,
   keyboard |-> {}, unhandled |-> {}]

\* one key code of each group of the handlers' switch, and the B key
KeyCodes == {"KeyA", "KeyD", "Space", "KeyB"}

\* handleKeyDown
handleKeyDown(a, code) ==
  IF a.appState # "PLAYING" THEN a
  ELSE CASE code = "KeyA"  -> [a EXCEPT !.inputState.left = TRUE]
         [] code = "KeyD"  -> [a EXCEPT !.inputState.right = TRUE]
         [] code = "Space" -> [a EXCEPT !.inputState.jump = TRUE]
         [] OTHER          -> [a EXCEPT !.unhandled = @ \cup {code}]

\* handleKeyUp
handleKeyUp(a, code) ==
  CASE code = "KeyA"  -> [a EXCEPT !.inputState.left = FALSE]
    [] code = "KeyD"  -> [a EXCEPT !.inputState.right = FALSE]
    [] code = "Space" -> [a EXCEPT !.inputState.jump = FALSE]
    [] OTHER          -> a

\* inputState.current as engine.update reads it: it has no phase property
FrameInput(a) ==
  [left |-> a.inputState.left, right |-> a.inputState.right,
   jump |-> a.inputState.jump, phase |-> FALSE]

\* .slice(0, 5)
KeptScores == 5

\* Array.prototype.sort((a, b) => b.score - a.score): stable, descending
InsertByScore(sorted, r) ==
  LET k == Cardinality({i \in DOMAIN sorted : sorted[i].score >= r.score})
  IN  SubSeq(sorted, 1, k) \o <<r>> \o SubSeq(sorted, k + 1, Len(sorted))

RECURSIVE SortByScore(_)
SortByScore(scores) ==
  IF scores = <<>> THEN <<>>
  ELSE InsertByScore(SortByScore(SubSeq(scores, 1, Len(scores) - 1)),
                     scores[Len(scores)])

\* mutant: the list is cut to its last five records
NewScoresFromTheEnd(highScores, newScore) ==
  LET sorted == SortByScore(Append(highScores, newScore))
  IN  SubSeq(sorted, Len(sorted) - Min(Len(sorted), 5) + 1, Len(sorted))

\* [...highScores, newScore].sort(...).slice(0, 5)
NewScores(highScores, newScore) ==
  LET sorted == SortByScore(Append(highScores, newScore))
  IN  SubSeq(sorted, 1, Min(Len(sorted), KeptScores))

\* handleGameOver(score); setAppState(GAME_OVER) unmounts the GameCanvas,
\* whose effect cleanup cancels the requested frame
handleGameOver(a, score) ==
  [a EXCEPT !.finalScore = score,
            !.highScores =
               NewScores(@, [score |-> score,
                             difficulty |-> a.selectedDifficulty]),
            !.appState = "GAME_OVER",
            !.pending = FALSE,
            !.gameOvers = @ + 1,
            !.submitted = @ (+) SetToBag({score})]

\* mutant: the loop ends the session on lives <= 0 only
loopIgnoringWin(a, state) ==
  IF state.lives <= 0
  THEN [handleGameOver(a, state.score) EXCEPT !.drawn = FALSE]
  ELSE [a EXCEPT !.drawn = TRUE, !.pending = TRUE]

\* GameCanvas loop, after engine.update and state = engine.getState():
\* a is the App as the callback finds it, its request used up
loop(a, state) ==
  IF state.lives <= 0 \/ state.gameWon
  THEN [handleGameOver(a, state.score) EXCEPT !.drawn = FALSE]
  ELSE [a EXCEPT !.drawn = TRUE, !.pending = TRUE]

----------------------------------------------------------------------------
(* Environments.  An environment env is a record:                          *)
(*   diffs        the difficulties reset is called with                    *)
(*   warm         the caller holds no key during the first warm updates    *)
(*                after a reset (the run up to the first obstacles), nor   *)
(*                when a session with such a run is started                *)
(*   maxTicks     updates per session                                      *)
(*   inputs       the inputs of the later updates                          *)
(*   hold         (optional) the keys held during the warm updates         *)
(*   sessions     (optional) the number of sessions the App may start      *)
(*   dts          the values of deltaTime                                  *)
(*   resetDraws   for each slice 11..24, the random values Math.random may *)
(*                return when reset generates the slice                    *)
(*   updateDraws  the same for the slices update generates; for a slice    *)
(*                outside its domain Math.random returns NoDraw's values   *)
(*                (nothing is placed)                                      *)

Idle == [left |-> FALSE, right |-> FALSE, jump |-> FALSE, phase |-> FALSE]

AllInputs == [left : BOOLEAN, right : BOOLEAN, jump : BOOLEAN, phase : BOOLEAN]

ResetSlices == 11..(InitialSlices - 1)

\* the random values of reset's slices 11..24: one choice per slice
ResetDraws(env) ==
  LET free == {z \in ResetSlices : Cardinality(env.resetDraws[z]) > 1}
      pick == {g \in [free -> UNION {env.resetDraws[z] : z \in free}] :
                 \A z \in free : g[z] \in env.resetDraws[z]}
  IN  {[z \in ResetSlices |->
          IF z \in free THEN g[z] ELSE CHOOSE d \in env.resetDraws[z] : TRUE] :
         g \in pick}

UpdateDraws(env, z) ==
  IF z \in DOMAIN env.updateDraws THEN env.updateDraws[z] ELSE {NoDraw}

Nothing == [z \in ResetSlices |-> {NoDraw}]

\* the sessions the App may start
TwoSessions == 2

MaxSessions(env) ==
  IF "sessions" \in DOMAIN env THEN env.sessions ELSE TwoSessions

\* the input of the warm updates
WarmInput(env) == IF "hold" \in DOMAIN env THEN env.hold ELSE Idle

\* the frame loop's deltaTime (GameCanvas: engine.update(inputState.current, 16))
FrameMs == 16

----------------------------------------------------------------------------
(* Jumping: an empty track, the jump key free from the first update on.    *)

JumpTicks == 40

JumpEnv ==
  [diffs |-> {"MEDIUM"}, warm |-> 0, maxTicks |-> JumpTicks,
   inputs |-> {i \in AllInputs : ~i.left /\ ~i.right /\ ~i.phase},
   dts |-> {FrameMs}, resetDraws |-> Nothing, updateDraws |-> <<>>]


----------------------------------------------------------------------------
(* Obstacles: on MEDIUM the player reaches slice 11 after HazardWarm idle  *)
(* updates (57 * 0.18 = 10.26 > 11 - 0.8).  Slice 11 is generated twice,   *)
(* by reset and again by the seventh update (reset leaves lastGenZ at 5);  *)
(* Math.random may place any obstacle or gold in lane 0 or lane 1 the      *)
(* first time, and the second time nothing or a stacked TNT in lane 0.     *)
(* Around the contact the jump and phase keys are free.                    *)

HazardWarm == 56
HazardTicks == 59

\* lane: 0.50 -> lane 0, 0.90 -> lane 1.  rand: 0.10 obstacle, 0.60 gold,
\* 0.90 nothing.  pick: 0.10 STONE, 0.60 TNT.  stack: 0.90 stacked.
\* stackType: 0.10 STONE, 0.90 TNT.  A value the code does not read is 10;
\* in lane 1 only gold or a single STONE is placed.
HazardDraws ==
  {d \in [lane : {50, 90}, rand : {10, 60, 90}, pick : {10, 60},
          stack : {10, 90}, stackType : {10, 90}] :
     /\ d.rand = 90 => d.lane = 50
     /\ d.rand # 10 => d.pick = 10 /\ d.stack = 10
     /\ d.stack = 10 => d.stackType = 10
     /\ d.lane = 90 => d.pick = 10 /\ d.stack = 10}

StackedTNT ==
  [lane |-> 50, rand |-> 10, pick |-> 60, stack |-> 90, stackType |-> 90]

HazardEnv ==
  [diffs |-> {"MEDIUM"}, warm |-> HazardWarm, maxTicks |-> HazardTicks,
   inputs |-> {i \in AllInputs : ~i.left /\ ~i.right},
   dts |-> {FrameMs, PhaseDuration},
   resetDraws |-> [z \in ResetSlices |->
                     IF z = 11 THEN HazardDraws ELSE {NoDraw}],
   updateDraws |-> [z \in {11} |-> {NoDraw, StackedTNT}]]


----------------------------------------------------------------------------
(* Gold: Math.random places a gold block in lane 0 of every slice reset    *)
(* generates and of every slice 11..24 update generates again, except that *)
(* update may leave slice 11 empty (an odd or an even number of blocks).   *)
(* The caller holds no key until the game is won (WinWarm updates), then   *)
(* any key.                                                                *)

WinWarm == 110
WinTicks == 113

GoldDraw ==
  [lane |-> 50, rand |-> 60, pick |-> 10, stack |-> 10, stackType |-> 10]

WinEnv ==
  [diffs |-> {"MEDIUM"}, warm |-> WinWarm, maxTicks |-> WinTicks,
   inputs |-> AllInputs,
   dts |-> {FrameMs, PhaseDuration},
   resetDraws |-> [z \in ResetSlices |-> {GoldDraw}],
   updateDraws |-> [z \in ResetSlices |->
                      IF z = 11 THEN {GoldDraw, NoDraw} ELSE {GoldDraw}]]


----------------------------------------------------------------------------
(* Mobs: reset's slices 11..24 each hold a gold block in lane 0 (level 2   *)
(* after 5 of them, level 3 after 8 more); the first slice update          *)
(* generates at level 3 is MobSlice, where Math.random places a CREEPER or *)
(* a SKELETON in lane 0.  The player reaches it after MobWarm idle         *)
(* updates; then the jump and phase keys are free.                         *)

MobSlice == 48
MobWarm == 202
MobTicks == 206

\* pick: 0.60 -> CREEPER, 0.90 -> SKELETON of the four obstacles of level 3
MobDraws ==
  {[lane |-> 50, rand |-> 10, pick |-> p, stack |-> 90, stackType |-> 10] :
     p \in {60, 90}}

MobEnv ==
  [diffs |-> {"MEDIUM"}, warm |-> MobWarm, maxTicks |-> MobTicks,
   inputs |-> {i \in AllInputs : ~i.left /\ ~i.right},
   dts |-> {FrameMs, PhaseDuration},
   resetDraws |-> [z \in ResetSlices |-> {GoldDraw}],
   updateDraws |-> [z \in {MobSlice} |-> MobDraws]]

----------------------------------------------------------------------------
(* Phase: an empty track, the phase key free from the first update on,     *)
(* deltaTime 2 s or 5 s per update (the timers run 5 s and 10 s).          *)

PhaseTicks == 8
SlowMs == 2000

PhaseEnv ==
  [diffs |-> {"MEDIUM"}, warm |-> 0, maxTicks |-> PhaseTicks,
   inputs |-> {i \in AllInputs : ~i.left /\ ~i.right /\ ~i.jump},
   dts |-> {SlowMs, PhaseDuration},
   resetDraws |-> Nothing, updateDraws |-> <<>>]

----------------------------------------------------------------------------
(* Speed: every difficulty; gold in lane 0 of every slice 11..24, placed   *)
(* by reset and again by update; the caller holds no key.  On EASY the     *)
(* sixth gold block is collected at update 104 (z = 12.48).                *)

SpeedTicks == 110

SpeedEnv ==
  [diffs |-> Difficulty, warm |-> SpeedTicks, maxTicks |-> SpeedTicks,
   inputs |-> {Idle}, dts |-> {FrameMs},
   resetDraws |-> [z \in ResetSlices |-> {GoldDraw}],
   updateDraws |-> [z \in ResetSlices |-> {GoldDraw}]]

----------------------------------------------------------------------------
(* Walls: an empty track; the caller holds left (or right) for LateralWarm *)
(* updates, which brings the player next to the wall at x = -2.16 (2.16),  *)
(* then the left and right keys are free.                                  *)

LateralWarm == 16
LateralTicks == 24

LateralEnv(key) ==
  [diffs |-> {"MEDIUM"}, warm |-> LateralWarm, maxTicks |-> LateralTicks,
   inputs |-> {i \in AllInputs : ~i.jump /\ ~i.phase},
   hold |-> [Idle EXCEPT ![key] = TRUE],
   dts |-> {FrameMs},
   resetDraws |-> Nothing, updateDraws |-> <<>>]

----------------------------------------------------------------------------
(* Snapshots: on MEDIUM, slice 11 holds a gold block or a TNT block in     *)
(* lane 0, reached after SnapWarm idle updates; from then on the consumer  *)
(* calls getState between the calls of update and reset.                   *)

SnapWarm == 56
SnapTicks == 59

SnapDraws ==
  {GoldDraw,
   [lane |-> 50, rand |-> 10, pick |-> 60, stack |-> 10, stackType |-> 10]}

SnapEnv ==
  [diffs |-> {"MEDIUM"}, warm |-> SnapWarm, maxTicks |-> SnapTicks,
   inputs |-> {Idle}, dts |-> {FrameMs},
   resetDraws |-> [z \in ResetSlices |->
                     IF z = 11 THEN SnapDraws ELSE {NoDraw}],
   updateDraws |-> <<>>]

----------------------------------------------------------------------------
(* Generation: gold in lane 0 of the slices 11..24, as for the mobs        *)
(* (level 2 after update 81, level 3 after update 116).  In lane -1,       *)
(* Math.random is free in four slices: in slice 11 of reset and in slice   *)
(* GenSliceOne of update (generated at level 1), in GenSliceTwo (the first *)
(* slice generated at level 2) and in MobSlice (the first at level 3).     *)
(* The caller holds no key.                                                *)

GenSliceOne == 25
GenSliceTwo == 40
GenTicks == 120

\* pick 0.00, 0.40, 0.70, 0.90: each obstacle of a pool of 2, 3 or 4
GenHazards ==
  {[lane |-> 10, rand |-> 0, pick |-> p, stack |-> 80, stackType |-> t] :
     p \in {0, 40, 70, 90}, t \in {10, 80}}

GenDraws ==
  GenHazards
    \cup {[lane |-> 10, rand |-> r, pick |-> 0, stack |-> 80, stackType |-> 80] :
            r \in {60, 90}}

GenResetDraws ==
  {d \in GenDraws : d.rand = 60 \/ (d.pick \in {0, 90} /\ d.stackType = 80)}

GenEnv ==
  [diffs |-> {"MEDIUM"}, warm |-> GenTicks, maxTicks |-> GenTicks,
   inputs |-> {Idle}, dts |-> {FrameMs},
   resetDraws |-> [z \in ResetSlices |->
                     IF z = 11 THEN GenResetDraws ELSE {GoldDraw}],
   updateDraws |-> [z \in {11, GenSliceOne, GenSliceTwo, MobSlice} |->
                      IF z = 11 THEN {GoldDraw} ELSE GenDraws]]

----------------------------------------------------------------------------
(* Gold, in the App: as above, but once the game is won the user is free   *)
(* to press and release the jump key only.                                 *)

WinJumpEnv ==
  [WinEnv EXCEPT
     !.inputs = {i \in AllInputs : ~i.left /\ ~i.right /\ ~i.phase}]

----------------------------------------------------------------------------
(* Win and loss: reset places gold in lane 0 of the slices 11..24; when    *)
(* update generates these slices again it places a STONE in lane 0 of the  *)
(* slices 11 and 12, a STONE or gold in slice 13, and gold in the others:  *)
(* 25 or 26 gold blocks and two or three stones on the way of a caller who *)
(* holds no key.                                                           *)

WinLossTicks == 125

StoneDraw ==
  [lane |-> 50, rand |-> 10, pick |-> 10, stack |-> 10, stackType |-> 10]

WinLossEnv ==
  [diffs |-> {"MEDIUM"}, warm |-> WinLossTicks, maxTicks |-> WinLossTicks,
   inputs |-> {Idle}, dts |-> {FrameMs},
   resetDraws |-> [z \in ResetSlices |-> {GoldDraw}],
   updateDraws |-> [z \in ResetSlices |->
                      IF z \in {11, 12} THEN {StoneDraw}
                      ELSE IF z = 13 THEN {StoneDraw, GoldDraw}
                      ELSE {GoldDraw}]]

----------------------------------------------------------------------------
(* Levels: every difficulty; one gold block in lane 0 of every slice from  *)
(* 11 on (reset places those of the slices 11..24, update those from slice *)
(* 25 on and none when it generates 11..24 again); the caller holds no     *)
(* key.  The 24th block (slice 34) completes level 3, the 25th wins.       *)

LevelTicks == 200
LevelGold == 50

LevelsEnv ==
  [diffs |-> Difficulty, warm |-> LevelTicks, maxTicks |-> LevelTicks,
   inputs |-> {Idle}, dts |-> {FrameMs},
   resetDraws |-> [z \in ResetSlices |-> {GoldDraw}],
   updateDraws |-> [z \in InitialSlices..LevelGold |-> {GoldDraw}]]

----------------------------------------------------------------------------
(* Keys: an empty track; the user is free to press and release the jump    *)
(* key and the B key from the start, in one session.                       *)

KeyTicks == 4

KeysEnv ==
  [diffs |-> {"MEDIUM"}, warm |-> 0, maxTicks |-> KeyTicks,
   inputs |-> {i \in AllInputs : ~i.left /\ ~i.right},
   dts |-> {FrameMs}, sessions |-> 1,
   resetDraws |-> Nothing, updateDraws |-> <<>>]

----------------------------------------------------------------------------
(* Scores: sessions on an empty track that end with any of a few scores.   *)

ScoreSessions == 7
ScoreTicks == 2

EndScores == {0, 10, 20, 250}

ScoresEnv ==
  [diffs |-> {"MEDIUM"}, warm |-> 0, maxTicks |-> ScoreTicks,
   inputs |-> {Idle}, dts |-> {FrameMs}, sessions |-> ScoreSessions,
   resetDraws |-> Nothing, updateDraws |-> <<>>]

----------------------------------------------------------------------------
(* GameCanvas: the helpers of the drawing code.  Distances and depths are  *)
(* in hundredths of a unit, the fog factor in ten-thousandths.             *)

FOG_DISTANCE == 25

Max(a, b) == IF a > b THEN a ELSE b

\* mutant: the factor is not cut at 1
fogFactorUncut(distance) ==
  LET linear == Max(0, MulDiv(distance - 500, Unit, (FOG_DISTANCE - 10) * 100))
  IN  MulDiv(linear, linear, Unit)

\* applyFog: Math.max(0, Math.min(1, (distance - 5) / (FOG_DISTANCE - 10))),
\* squared
fogFactor(distance) ==
  LET linear == Max(0, Min(Unit, MulDiv(distance - 500, Unit,
                                        (FOG_DISTANCE - 10) * 100)))
  IN  MulDiv(linear, linear, Unit)

(* Points are in ten-thousandths of a unit, as the engine's positions; an   *)
(* angle is a record of its radians, cosine and sine, in ten-thousandths.  *)

FOV == 450

\* if (rz <= 0.1) return null
NearPlane == 1000

Null == [null |-> TRUE]

\* project, steps 1 to 3: translate, roll by tilt, pitch
Rotated(p, cam, tilt, pitch) ==
  LET t == [x |-> p.x - cam.x, y |-> p.y - cam.y, z |-> p.z - cam.z]
      r == IF tilt.rad # 0
           THEN [t EXCEPT
                   !.x = MulDiv(t.x, tilt.cos, Unit) - MulDiv(t.y, tilt.sin, Unit),
                   !.y = MulDiv(t.x, tilt.sin, Unit) + MulDiv(t.y, tilt.cos, Unit)]
           ELSE t
  IN  IF pitch.rad # 0
      THEN [r EXCEPT
              !.y = MulDiv(r.y, pitch.cos, Unit) + MulDiv(r.z, pitch.sin, Unit),
              !.z = MulDiv(r.z, pitch.cos, Unit) - MulDiv(r.y, pitch.sin, Unit)]
      ELSE r

\* project, step 4: the screen point of a rotated point in front of the
\* near plane; scale = FOV / rz in hundredths, x and y (rx * scale and
\* ry * scale from the centre of the canvas) in whole pixels
Projected(r, width, height) ==
  [x |-> MulDiv(r.x, FOV, r.z) + width \div 2,
   y |-> height \div 2 - MulDiv(r.y, FOV, r.z),
   scale |-> (FOV * Unit * 100) \div r.z,
   dist |-> r.z]

\* mutant: the near plane is at depth 0
projectUpToTheCamera(p, cam, width, height, tilt, pitch) ==
  LET r == Rotated(p, cam, tilt, pitch)
  IN  IF r.z <= 0 THEN Null ELSE Projected(r, width, height)

project(p, cam, width, height, tilt, pitch) ==
  LET r == Rotated(p, cam, tilt, pitch)
  IN  IF r.z <= NearPlane THEN Null ELSE Projected(r, width, height)

\* the point at the offsets sx * hx, sy * hy, sz * hz from c
Corner(c, hx, hy, hz, sx, sy, sz) ==
  [x |-> c.x + sx * hx, y |-> c.y + sy * hy, z |-> c.z + sz * hz]

Quad(face, p1, p2, p3, p4) == [face |-> face, points |-> <<p1, p2, p3, p4>>]

\* drawCube: the faces it hands to drawFaceDetails, with their corners
drawCube(entity, cam, width, height, tilt, pitch) ==
  LET P(v)  == project(v, cam, width, height, tilt, pitch)
      hs    == entity.size \div 2
      c     == entity.position
      projC == P(c)
      ft    == P(Corner(c, hs, hs, hs, -1, 1, -1))
      ftr   == P(Corner(c, hs, hs, hs, 1, 1, -1))
      fb    == P(Corner(c, hs, hs, hs, -1, -1, -1))
      fbr   == P(Corner(c, hs, hs, hs, 1, -1, -1))
      bt    == P(Corner(c, hs, hs, hs, -1, 1, 1))
      btr   == P(Corner(c, hs, hs, hs, 1, 1, 1))
      bb    == P(Corner(c, hs, hs, hs, -1, -1, 1))
      bbr   == P(Corner(c, hs, hs, hs, 1, -1, 1))
  IN  IF entity.collected THEN <<>>
      ELSE IF projC = Null THEN <<>>
      ELSE IF projC.dist > FOG_DISTANCE * Unit THEN <<>>
      ELSE IF Null \in {ft, ftr, fb, fbr, bt, btr} THEN <<>>
      ELSE (IF c.z - hs > cam.z + NearPlane
            THEN <<Quad("FRONT", ft, ftr, fbr, fb)>> ELSE <<>>)
        \o (IF c.x < cam.x
            THEN (IF bbr # Null
                  THEN <<Quad("SIDE", ftr, btr, bbr, fbr)>> ELSE <<>>)
            ELSE (IF bb # Null
                  THEN <<Quad("SIDE", bt, ft, fb, bb)>> ELSE <<>>))
        \o (IF c.y < cam.y
            THEN <<Quad("TOP", bt, btr, ftr, ft)>> ELSE <<>>)

\* drawStevePart for a part that is not rotated: the faces drawFace reads
\* the corners of (before its backface test)
drawStevePart(p, size, cam, width, height, tilt, pitch) ==
  LET hw == size.w \div 2
      hh == size.h \div 2
      hd == size.d \div 2
      verts == <<Corner(p, hw, hh, hd, -1, 1, -1), Corner(p, hw, hh, hd, 1, 1, -1),
                 Corner(p, hw, hh, hd, 1, -1, -1), Corner(p, hw, hh, hd, -1, -1, -1),
                 Corner(p, hw, hh, hd, -1, 1, 1),  Corner(p, hw, hh, hd, 1, 1, 1),
                 Corner(p, hw, hh, hd, 1, -1, 1),  Corner(p, hw, hh, hd, -1, -1, 1)>>
      projVerts == [i \in 1..8 |->
                      project(verts[i], cam, width, height, tilt, pitch)]
      faces == <<[face |-> "FRONT",  idxs |-> <<0, 1, 2, 3>>],
                 [face |-> "BACK",   idxs |-> <<5, 4, 7, 6>>],
                 [face |-> "TOP",    idxs |-> <<4, 5, 1, 0>>],
                 [face |-> "BOTTOM", idxs |-> <<3, 2, 6, 7>>],
                 [face |-> "LEFT",   idxs |-> <<4, 0, 3, 7>>],
                 [face |-> "RIGHT",  idxs |-> <<1, 5, 6, 2>>]>>
      seen  == SelectSeq(faces, LAMBDA f :
                 ~\E k \in 1..4 : projVerts[f.idxs[k] + 1] = Null)
  IN  [k \in 1..Len(seen) |->
         [face |-> seen[k].face,
          points |-> [j \in 1..4 |-> projVerts[seen[k].idxs[j] + 1]]]]

\* a particle, a name label: const proj = project(...); if (proj) { ... }
drawPoint(p, cam, width, height, tilt, pitch) ==
  LET proj == project(p, cam, width, height, tilt, pitch)
  IN  IF proj # Null THEN <<[face |-> "POINT", points |-> <<proj>>]>>
      ELSE <<>>

----------------------------------------------------------------------------
(* Calls of single functions.  A probe is a record: fn names the function, *)
(* in holds its arguments, done tells that it has been called and out      *)
(* holds its result.                                                       *)

NoProbe == [fn |-> "none"]

\* checkCollisions: the player's box at the origin of the track's start and
\* one entity, its offset on each axis taken from values at and next to
\* the half-extent sums 0.55, 0.7 (size 0.5) and 0.8, 0.95 (size 1)
BoxOffsets ==
  {0, 5499, 5500, -5500, 6999, 7000, 7999, 8000, -8000, 9499, 9500, -9500}

BoxStart == [x |-> LANE_WIDTH, y |-> 0, z |-> 20 * Unit]

BoxProbes ==
  {[fn |-> "checkCollisions", done |-> FALSE, out |-> FALSE,
    in |-> [player |-> [position |-> BoxStart],
            entity |-> [id |-> <<"obs", 20, 0>>, type |-> "STONE",
                        position |-> [x |-> BoxStart.x + dx,
                                      y |-> BoxStart.y + dy,
                                      z |-> BoxStart.z + dz],
                        size |-> size, collected |-> c]]] :
     dx \in BoxOffsets, dy \in BoxOffsets, dz \in BoxOffsets,
     size \in {Unit, Unit \div 2}, c \in BOOLEAN}

\* applyFog at two depths, from behind the camera to beyond the fog
FogStep == 50
FogDepths == {d * FogStep : d \in -10..70}

FogProbes ==
  {[fn |-> "applyFog", done |-> FALSE, out |-> [near |-> 0, far |-> 0],
    in |-> [near |-> a, far |-> b]] : a \in FogDepths, b \in FogDepths}

\* project and its callers: a canvas of 800 x 600, the camera of a player
\* at the start of the track (7.5 above and 5.5 behind), a block, a part
\* of the figure and a particle at a point of a grid that reaches from
\* behind the near plane into the fog, with and without roll and pitch
CanvasWidth == 800
CanvasHeight == 600

Camera == [x |-> 0, y |-> 75000, z |-> -55000]

Rolls ==
  {[rad |-> 0, cos |-> Unit, sin |-> 0],
   [rad |-> 1500, cos |-> 9888, sin |-> 1494],
   [rad |-> -1500, cos |-> 9888, sin |-> -1494]}

Pitches ==
  {[rad |-> 0, cos |-> Unit, sin |-> 0],
   [rad |-> 6000, cos |-> 8253, sin |-> 5646]}

ViewPoints ==
  {[x |-> x, y |-> y, z |-> z] :
     x \in {-2 * LANE_WIDTH, 0, LANE_WIDTH},
     y \in {-Unit, 0, Unit \div 2, 80000},
     z \in {-120000, -108000, -105000, -103000, -100000, -60000, -56000,
            -54000, -53000, -50000, 0, 100000, 190000, 200000}}

HeadSize == [w |-> 5000, h |-> 5000, d |-> 5000]

ViewProbes ==
  {[fn |-> "project", done |-> FALSE,
    out |-> [point |-> Null, cube |-> <<>>, part |-> <<>>, particle |-> <<>>],
    in |-> [p |-> p, size |-> size, tilt |-> tilt, pitch |-> pitch]] :
     p \in ViewPoints, size \in {Unit, Unit \div 2},
     tilt \in Rolls, pitch \in Pitches}

----------------------------------------------------------------------------
(* The calls on the engine *)

Env ==
  CASE scenario = "jump"   -> JumpEnv
    [] scenario = "hazard" -> HazardEnv
    [] scenario = "win"    -> WinEnv
    [] scenario = "mob"    -> MobEnv
    [] scenario = "phase"  -> PhaseEnv
    [] scenario = "speed"  -> SpeedEnv
    [] scenario = "left"   -> LateralEnv("left")
    [] scenario = "right"  -> LateralEnv("right")
    [] scenario = "snap"   -> SnapEnv
    [] scenario = "scores" -> ScoresEnv
    [] scenario = "gen"    -> GenEnv
    [] scenario = "keys"   -> KeysEnv
    [] scenario = "levels" -> LevelsEnv
    [] scenario = "winloss" -> WinLossEnv
    [] scenario = "winjump" -> WinJumpEnv

\* new GameEngine(): the constructor calls reset(Difficulty.MEDIUM); the
\* App shows its menu
InitWith(scenarios, probes) ==
  /\ scenario \in scenarios
  /\ \E draws \in ResetDraws(Env) : engine = ResetState("MEDIUM", draws)
  /\ ticks = 0
  /\ last = [op |-> "reset", input |-> Idle, dt |-> 0]
  /\ held = NoSnapshot
  /\ app = AppStart
  /\ probe \in probes

InitIn(scenarios) == InitWith(scenarios, {NoProbe})

\* a function is called on arguments drawn from a set
InitOn(probes) == InitWith({"jump"}, probes)

\* engine.reset(difficulty), Math.random returning draws
DoReset(difficulty, draws) ==
  /\ engine' = ResetState(difficulty, draws)
  /\ ticks' = 0
  /\ last' = [op |-> "reset", input |-> Idle, dt |-> 0]
  /\ held' = HeldAfterReset(held)

\* engine.update(input, dt), Math.random returning d
DoUpdate(input, dt, d) ==
  /\ engine' = UpdateState(engine, input, dt, d)
  /\ ticks' = ticks + 1
  /\ last' = [op |-> "update", input |-> input, dt |-> dt]
  /\ held' = HeldAfterUpdate(held, engine, input, dt, d)

\* engine.reset(difficulty)
Reset ==
  /\ \E difficulty \in Env.diffs, draws \in ResetDraws(Env) :
       DoReset(difficulty, draws)
  /\ UNCHANGED <<scenario, app, probe>>

\* engine.update(input, deltaTime)
Update ==
  /\ ticks < Env.maxTicks
  /\ \E input \in (IF ticks < Env.warm THEN {WarmInput(Env)} ELSE Env.inputs),
        dt \in Env.dts,
        d \in UpdateDraws(Env, engine.lastGenZ) :
       DoUpdate(input, dt, d)
  /\ UNCHANGED <<scenario, app, probe>>

\* engine.getState(), its result kept by the caller
GetState ==
  /\ ticks >= Env.warm
  /\ held' = TakeSnapshot(engine)
  /\ last' = [op |-> "getState", input |-> Idle, dt |-> 0]
  /\ UNCHANGED <<engine, ticks, scenario, app, probe>>

Next == Reset \/ Update

Spec ==
  InitIn({"jump", "hazard", "win", "mob", "phase", "speed", "left", "right"})
    /\ [][Next]_vars

SpecJump == InitIn({"jump"}) /\ [][Next]_vars

SpecHazard == InitIn({"hazard"}) /\ [][Next]_vars

SpecWin == InitIn({"win"}) /\ [][Next]_vars

SpecMob == InitIn({"mob"}) /\ [][Next]_vars

SpecHazardMob == InitIn({"hazard", "mob"}) /\ [][Next]_vars

SpecHazardWin == InitIn({"hazard", "win"}) /\ [][Next]_vars

SpecPhase == InitIn({"phase"}) /\ [][Next]_vars

\* the caller keeps calling update (the frame loop) as long as it may
SpecPhaseLive == InitIn({"phase"}) /\ [][Next]_vars /\ WF_vars(Update)

SpecWinSpeed == InitIn({"win", "speed"}) /\ [][Next]_vars

SpecSessions == InitIn({"hazard", "win", "speed"}) /\ [][Next]_vars

SpecLateral == InitIn({"left", "right"}) /\ [][Next]_vars

SpecGen == InitIn({"gen"}) /\ [][Next]_vars

SpecLevels == InitIn({"levels"}) /\ [][Next]_vars

SpecWinLoss == InitIn({"winloss"}) /\ [][Next]_vars

----------------------------------------------------------------------------
(* Single functions *)

\* checkCollisions' loop over a world of one entity: the test of the
\* entity's flag and of the three comparisons
TestCollision ==
  /\ probe.fn = "checkCollisions" /\ ~probe.done
  /\ probe' =
       [probe EXCEPT
          !.done = TRUE,
          !.out = Colliding([player |-> probe.in.player,
                             entities |-> <<probe.in.entity>>]) # <<>>]
  /\ UNCHANGED <<engine, ticks, last, scenario, held, app>>

SpecCollide == InitOn(BoxProbes) /\ [][TestCollision]_vars

\* applyFog(color, distance) for the two depths: the fog factor it mixes
\* the colour with
ApplyFog ==
  /\ probe.fn = "applyFog" /\ ~probe.done
  /\ probe' = [probe EXCEPT !.done = TRUE,
                            !.out = [near |-> fogFactor(probe.in.near),
                                     far |-> fogFactor(probe.in.far)]]
  /\ UNCHANGED <<engine, ticks, last, scenario, held, app>>

SpecFog == InitOn(FogProbes) /\ [][ApplyFog]_vars

\* project on the point, and drawCube, drawStevePart and the particle
\* drawing for a block, a part and a particle centred there
Project ==
  /\ probe.fn = "project" /\ ~probe.done
  /\ LET in == probe.in
         block == [id |-> <<"obs", 0, 0>>, type |-> "STONE",
                   position |-> in.p, size |-> in.size, collected |-> FALSE]
     IN  probe' =
           [probe EXCEPT
              !.done = TRUE,
              !.out = [point |-> project(in.p, Camera, CanvasWidth,
                                         CanvasHeight, in.tilt, in.pitch),
                       cube |-> drawCube(block, Camera, CanvasWidth,
                                         CanvasHeight, in.tilt, in.pitch),
                       part |-> drawStevePart(in.p, HeadSize, Camera,
                                              CanvasWidth, CanvasHeight,
                                              in.tilt, in.pitch),
                       particle |-> drawPoint(in.p, Camera, CanvasWidth,
                                              CanvasHeight, in.tilt,
                                              in.pitch)]]
  /\ UNCHANGED <<engine, ticks, last, scenario, held, app>>

SpecProject == InitOn(ViewProbes) /\ [][Project]_vars

----------------------------------------------------------------------------

\* the engine with a consumer that keeps snapshots
NextSnapshot == Reset \/ Update \/ GetState

SpecSnapshot == InitIn({"snap"}) /\ [][NextSnapshot]_vars

----------------------------------------------------------------------------
(* The App: the engine is called by startGame and by the frame loop only   *)

\* the difficulty buttons of the menu
SelectDifficulty ==
  /\ app.mounted /\ app.appState = "MENU"
  /\ \E d \in Difficulty : app' = [app EXCEPT !.selectedDifficulty = d]
  /\ UNCHANGED <<engine, ticks, last, scenario, held, probe>>

\* the keys the user holds, as an input of the environment
Held(keyboard) ==
  [left |-> "KeyA" \in keyboard, right |-> "KeyD" \in keyboard,
   jump |-> "Space" \in keyboard, phase |-> "KeyB" \in keyboard]

\* the environment lets the user hold these keys now
UserMay(keyboard) == ticks >= Env.warm /\ Held(keyboard) \in Env.inputs

\* startGame (menu, game-over screen); the GameCanvas mounts and its
\* effect requests the first frame
StartGame ==
  /\ app.mounted /\ app.appState \in {"MENU", "GAME_OVER"}
  /\ app.sessions < MaxSessions(Env)
  /\ Env.warm > 0 => Held(app.keyboard) = WarmInput(Env)
  /\ \E draws \in ResetDraws(Env) : DoReset(app.selectedDifficulty, draws)
  /\ app' = [app EXCEPT !.appState = "PLAYING", !.pending = TRUE,
                        !.inputState = NoKeys,
                        !.sessions = @ + 1, !.gameOvers = 0,
                        !.drawn = FALSE, !.unhandled = {}]
  /\ UNCHANGED <<scenario, probe>>

\* a keydown event
KeyDown ==
  /\ app.mounted
  /\ \E code \in KeyCodes \ app.keyboard :
       /\ UserMay(app.keyboard \cup {code})
       /\ app' = [handleKeyDown(app, code) EXCEPT !.keyboard = @ \cup {code}]
  /\ UNCHANGED <<engine, ticks, last, scenario, held, probe>>

\* a keyup event
KeyUp ==
  /\ app.mounted
  /\ \E code \in app.keyboard :
       /\ UserMay(app.keyboard \ {code})
       /\ app' = [handleKeyUp(app, code) EXCEPT !.keyboard = @ \ {code}]
  /\ UNCHANGED <<engine, ticks, last, scenario, held, probe>>

\* the frame callback: the keys are as the key handlers have left them
Frame ==
  /\ app.mounted /\ app.pending
  /\ ticks < Env.maxTicks
  /\ \E d \in UpdateDraws(Env, engine.lastGenZ) :
       /\ DoUpdate(FrameInput(app), FrameMs, d)
       /\ app' = loop([app EXCEPT !.pending = FALSE, !.unhandled = {}],
                      getState(UpdateState(engine, FrameInput(app),
                                           FrameMs, d)))
  /\ UNCHANGED <<scenario, probe>>

\* the HOW TO PLAY button
ShowHelp ==
  /\ app.mounted /\ app.appState = "MENU"
  /\ app' = [app EXCEPT !.appState = "HELP"]
  /\ UNCHANGED <<engine, ticks, last, scenario, held, probe>>

\* BACK TO MENU (help), MENU (game over)
BackToMenu ==
  /\ app.mounted /\ app.appState \in {"HELP", "GAME_OVER"}
  /\ app' = [app EXCEPT !.appState = "MENU"]
  /\ UNCHANGED <<engine, ticks, last, scenario, held, probe>>

\* the App is unmounted; a mounted GameCanvas goes with it and its effect
\* cleanup cancels the requested frame
Teardown ==
  /\ app.mounted
  /\ app' = [app EXCEPT !.mounted = FALSE, !.pending = FALSE]
  /\ UNCHANGED <<engine, ticks, last, scenario, held, probe>>

NextApp ==
  \/ SelectDifficulty \/ StartGame \/ Frame
  \/ KeyDown \/ KeyUp
  \/ ShowHelp \/ BackToMenu \/ Teardown

SpecApp == InitIn({"hazard", "winjump"}) /\ [][NextApp]_vars

SpecKeys == InitIn({"keys"}) /\ [][NextApp]_vars

\* handleGameOver called with any of a few scores
SessionEnd ==
  /\ app.mounted /\ app.appState = "PLAYING"
  /\ \E score \in EndScores : app' = handleGameOver(app, score)
  /\ UNCHANGED <<engine, ticks, last, scenario, held, probe>>

NextScores == StartGame \/ SessionEnd \/ BackToMenu

SpecScores == InitIn({"scores"}) /\ [][NextScores]_vars

----------------------------------------------------------------------------
(* What one step did *)

\* the step is an update call that ran (the game was not won before it)
Ran == last'.op = "update" /\ ~engine.gameWon

\* the call before this one was an update with the jump key down
JumpWasDown == last.op = "update" /\ last.input.jump

\* entities of s still in the world beyond z = limit, collected, of a type
\* in types
CollectedOf(s, types, limit) ==
  Cardinality({i \in DOMAIN s.entities :
                 /\ s.entities[i].collected
                 /\ s.entities[i].type \in types
                 /\ s.entities[i].position.z > limit})

Hazards == {"GRASS", "STONE", "TNT", "CREEPER", "SKELETON"}

\* update's cleanup keeps the entities beyond this z
KeptBeyond == engine'.player.position.z - CleanupMargin * Unit

\* the gold blocks, the hazards this step marked collected
NewGold ==
  CollectedOf(engine', {"GOLD"}, KeptBeyond)
    - CollectedOf(engine, {"GOLD"}, KeptBeyond)

NewHits ==
  CollectedOf(engine', Hazards, KeptBeyond)
    - CollectedOf(engine, Hazards, KeptBeyond)

Occurrences(seq, e) == Cardinality({i \in DOMAIN seq : seq[i] = e})

\* no entity that stays in the world loses its collected flag
FlagsKept ==
  \A i \in DOMAIN engine.entities :
    LET e == engine.entities[i]
    IN  (e.collected /\ e.position.z > KeptBeyond)
          => Occurrences(engine'.entities, e) >= Occurrences(engine.entities, e)

\* particles of a colour spawned by the last update (aged once since)
Fresh(s, color) ==
  Cardinality({i \in DOMAIN s.particles :
                 s.particles[i].color = color /\ s.particles[i].moved = 1})

\* the player's box overlaps an entity of s with the given flag and type
Touching(s, types, collected) ==
  \E i \in DOMAIN s.entities :
    /\ s.entities[i].type \in types
    /\ s.entities[i].collected = collected
    /\ Overlaps(s.player, s.entities[i])

Landed(p) ==
  p.position.y = 0 /\ p.velocity.y = 0 /\ ~p.isJumping /\ p.jumpCount = 0

\* the step applied gravity to the vertical velocity and nothing else
NoImpulse ==
  \/ /\ engine'.player.velocity.y = engine.player.velocity.y - GRAVITY
     /\ engine'.player.jumpCount = engine.player.jumpCount
     /\ engine'.player.isJumping = engine.player.isJumping
  \/ Landed(engine'.player)

----------------------------------------------------------------------------
(* C1: an update whose collision check runs with phase active loses no     *)
(* life, marks no hazard collected and does not raise shakeIntensity,      *)
(* whatever hazards the player's box overlaps.                             *)
C1_PhaseSuppressesHazards ==
  [][(Ran /\ engine'.player.phaseActive)
       => /\ engine'.lives = engine.lives
          /\ NewHits = 0
          /\ engine'.shakeIntensity <= engine.shakeIntensity]_vars

\* after an update, phase is active and the box overlaps a TNT block that is
\* still uncollected, with all three lives left
C1_PhasedThroughObstacle ==
  /\ last.op = "update"
  /\ engine.player.phaseActive
  /\ engine.player.phaseTimeRemaining > 0
  /\ engine.lives = 3
  /\ Touching(engine, {"TNT"}, FALSE)

(* C2: lives >= 0 in every state reachable by reset and updates.           *)
C2_LivesNonNegative == engine.lives >= 0

(* C3: a single update lowers lives by at most 1.                          *)
C3_OneLifePerTick == [][engine'.lives >= engine.lives - 1]_vars

(* C4: an update adds exactly 10 to the score, and 1 to goldCollected, for *)
(* each gold block it marks collected, and marks every uncollected gold    *)
(* block the box overlaps; no flag reverts; a block already collected      *)
(* changes nothing: score and goldCollected move only with newly collected *)
(* gold, lives only with newly collected hazards, and gold particles are   *)
(* spawned only for newly collected gold.                                  *)
C4_GoldCollectedOnce ==
  [][Ran
       => /\ engine'.score = engine.score + 10 * NewGold
          /\ engine'.goldCollectedInLevel =
               (IF engine'.level = engine.level
                THEN engine.goldCollectedInLevel ELSE 0) + NewGold
          /\ engine'.lives = engine.lives - NewHits
          /\ Fresh(engine', "#FCEE4B") = 10 * NewGold
          /\ ~Touching(engine', {"GOLD"}, FALSE)
          /\ FlagsKept]_vars

\* the box still overlaps a gold block collected by an earlier update
C4_StillOnCollectedGold ==
  /\ last.op = "update"
  /\ engine.score = 10
  /\ Touching(engine, {"GOLD"}, TRUE)
  /\ Fresh(engine, "#FCEE4B") = 0

(* C5: in every snapshot, score >= 250 implies gameWon and not isPlaying.  *)
C5_WonAt250 ==
  engine.score >= 250
    => getState(engine).gameWon /\ ~getState(engine).isPlaying

\* the gold block that brings the score to 250 exactly
C5_Reached250 ==
  engine.score = 250 /\ getState(engine).gameWon /\ last.op = "update"

(* C6: once gameWon is true an update changes no field of the engine.      *)
C6_NoOpWhenWon ==
  [][(last'.op = "update" /\ engine.gameWon) => engine' = engine]_vars

\* an update with every key down has left the jump latch untouched
C6_UpdatedAfterWin ==
  /\ engine.gameWon
  /\ last.op = "update"
  /\ last.input = [left |-> TRUE, right |-> TRUE, jump |-> TRUE, phase |-> TRUE]
  /\ last.dt = PhaseDuration
  /\ ~engine.lastJumpInput

(* C7: levelTarget is 5 at level 1 and grows by 3 per level; an update     *)
(* changes level only when goldCollected >= levelTarget at its start, then *)
(* by exactly +1 with goldCollected reset to 0 (before that update's own   *)
(* collisions are counted).                                                *)
C7_Leveling ==
  [][/\ engine'.levelTarget = 5 + 3 * (engine'.level - 1)
     /\ Ran =>
          IF engine.goldCollectedInLevel >= engine.levelTarget
          THEN /\ engine'.level = engine.level + 1
               /\ engine'.levelTarget = engine.levelTarget + 3
               /\ engine'.goldCollectedInLevel = NewGold
          ELSE /\ engine'.level = engine.level
               /\ engine'.levelTarget = engine.levelTarget
               /\ engine'.goldCollectedInLevel =
                    engine.goldCollectedInLevel + NewGold]_vars

\* level 2 reached from exactly 5 gold blocks
C7_LevelTwo ==
  /\ last.op = "update"
  /\ engine.level = 2 /\ engine.levelTarget = 8
  /\ engine.goldCollectedInLevel = 0
  /\ engine.score = 50

(* C8: an update with jump down, after a call without it, from the ground  *)
(* gives isJumping, jumpCount = 1 and velocity.y = JUMP_FORCE - GRAVITY;   *)
(* an update with jump down after an update with jump down (held) applies  *)
(* no impulse and leaves jumpCount as it is, until the player lands.       *)
C8_JumpRisingEdge ==
  [][(Ran /\ last'.input.jump)
       => /\ (~JumpWasDown /\ ~engine.player.isJumping)
               => /\ engine'.player.isJumping
                  /\ engine'.player.jumpCount = 1
                  /\ engine'.player.velocity.y = 6500 - 450
          /\ JumpWasDown => NoImpulse]_vars

\* jump pressed at the first update and held for two more
C8_HeldInTheAir ==
  /\ ticks = 3
  /\ last.input.jump
  /\ engine.player.jumpCount = 1
  /\ engine.player.isJumping
  /\ engine.player.velocity.y = 6500 - 3 * 450

(* C9: in the air with jumpCount = 1, an update with jump down after an    *)
(* update with jump up sets jumpCount = 2 and velocity.y = 0.9 *           *)
(* JUMP_FORCE - GRAVITY; with jumpCount = 2 no press applies an impulse;   *)
(* every impulse raises jumpCount by one, jumpCount never exceeds 2 and    *)
(* drops only by landing.                                                  *)
C9_DoubleJump ==
  [][Ran
       => /\ (last'.input.jump /\ ~JumpWasDown /\ engine.player.jumpCount = 1)
               => /\ engine'.player.jumpCount = 2
                  /\ engine'.player.isJumping
                  /\ engine'.player.velocity.y = 5850 - 450
          /\ engine.player.jumpCount = 2 => NoImpulse
          /\ ~NoImpulse
               => engine'.player.jumpCount = engine.player.jumpCount + 1
          /\ engine'.player.jumpCount <= 2
          /\ engine'.player.jumpCount < engine.player.jumpCount
               => Landed(engine'.player)]_vars

\* the second impulse has just been applied
C9_SecondImpulse ==
  /\ last.op = "update"
  /\ last.input.jump
  /\ engine.player.jumpCount = 2
  /\ engine.player.velocity.y = 5850 - 450

(* C10: jumpCount is 0, 1 or 2 and position.y >= 0; jumpCount = 0 exactly  *)
(* when the player is grounded, jumpCount >= 1 exactly when isJumping.     *)
C10_JumpCountAndGround ==
  LET p == engine.player
  IN  /\ p.jumpCount \in {0, 1, 2}
      /\ p.position.y >= 0
      /\ p.jumpCount = 0 <=> (~p.isJumping /\ p.position.y = 0)
      /\ p.jumpCount >= 1 <=> p.isJumping

\* back on the ground after a jump, the jump key still down
C10_LandedAgain ==
  /\ last.op = "update"
  /\ ticks > 1
  /\ Landed(engine.player)
  /\ engine.lastJumpInput

----------------------------------------------------------------------------
(* The phase ability, as one step shows it *)

\* the call before this one was an update with the phase key down
PhaseWasDown == last.op = "update" /\ last.input.phase

\* the step activated phase: it spawned the 20 particles of the activation
Activated == Ran /\ Fresh(engine', "#00FFFF") > 0

\* phaseCooldown after the step's timer step
CooldownAfterTimer ==
  IF engine.player.phaseCooldown > 0
  THEN engine.player.phaseCooldown - last'.dt
  ELSE engine.player.phaseCooldown

(* C11: an update activates phase only if its input has phase down, the    *)
(* update before it (if any since reset) had phase up, and phaseCooldown   *)
(* is <= 0 after the timer step; so a held key activates at most once,     *)
(* also when the cooldown runs out under it, and a press during the        *)
(* cooldown changes nothing: the cooldown just keeps counting down.        *)
C11_PhaseRisingEdge ==
  [][Ran
       => /\ Activated
               => /\ last'.input.phase
                  /\ ~PhaseWasDown
                  /\ CooldownAfterTimer <= 0
          /\ (PhaseWasDown \/ CooldownAfterTimer > 0)
               => /\ Fresh(engine', "#00FFFF") = 0
                  /\ engine'.player.phaseCooldown = CooldownAfterTimer
                  /\ engine'.player.phaseTimeRemaining # PhaseDuration]_vars

\* the cooldown has run out under a key held since the activation, and
\* phase was not activated again
C11_HeldThroughCooldown ==
  /\ ticks = 3
  /\ last.op = "update" /\ last.input.phase
  /\ engine.lastPhaseInput
  /\ engine.player.phaseCooldown = 0
  /\ ~engine.player.phaseActive
  /\ Fresh(engine, "#00FFFF") = 0

----------------------------------------------------------------------------
\* the particles of s with the given life (in hundredths) and colour
ParticlesAt(s, life, color) ==
  Cardinality({i \in DOMAIN s.particles :
                 s.particles[i].life = life /\ s.particles[i].color = color})

\* the particles of the list that one more step of 0.05 leaves with life > 0
Surviving(particles) ==
  SelectSeq(particles, LAMBDA q : q.life - ParticleLifeStep > 0)

(* C13: a particle is created with life 1.0 and every update that runs     *)
(* lowers the life of every particle by 0.05, the spawning update          *)
(* included: after an update the list holds, in their order, the old       *)
(* particles whose lowered life is > 0, each with its life lowered by      *)
(* 0.05, followed by the new ones with life 0.95; so every particle of a   *)
(* snapshot has life in (0, 1].                                            *)
C13_ParticleLife ==
  [][Ran
       => LET kept == Surviving(engine.particles)
              now  == engine'.particles
          IN  /\ Len(now) >= Len(kept)
              /\ \A i \in DOMAIN now :
                   /\ now[i].life > 0 /\ now[i].life <= 100
                   /\ IF i <= Len(kept)
                      THEN /\ now[i].life = kept[i].life - ParticleLifeStep
                           /\ now[i].color = kept[i].color
                      ELSE now[i].life = 100 - ParticleLifeStep]_vars

\* the eight particles of a double jump at their last life (0.05), about
\* to disappear
C13_LastLife ==
  /\ last.op = "update"
  /\ ParticlesAt(engine, ParticleLifeStep, "#FFFFFF") = 8

----------------------------------------------------------------------------
\* s is the state a session starts in at difficulty d
SessionStart(s, d) ==
  /\ s.difficulty = d
  /\ s.player.position = [x |-> 0, y |-> 0, z |-> 0]
  /\ s.player.velocity = [x |-> 0, y |-> 0, z |-> 0]
  /\ ~s.player.isJumping /\ s.player.jumpCount = 0
  /\ ~s.player.phaseActive
  /\ s.player.phaseTimeRemaining = 0 /\ s.player.phaseCooldown = 0
  /\ s.currentSpeed = DIFFICULTY_SETTINGS[d].startSpeed
  /\ s.score = 0 /\ s.lives = 3 /\ s.level = 1
  /\ s.goldCollectedInLevel = 0 /\ s.levelTarget = 5
  /\ ~s.gameWon /\ s.shakeIntensity = 0
  /\ ~s.lastJumpInput /\ ~s.lastPhaseInput
  /\ s.particles = <<>>
  /\ \A i \in DOMAIN s.entities :
       /\ s.entities[i].position.z \in {z * Unit : z \in 0..24}
       /\ ~s.entities[i].collected
  /\ LET ground == SelectSeq(s.entities, LAMBDA e : e.type = "GRASS")
     IN  /\ Len(ground) = 5 * 25
         /\ \A k \in DOMAIN ground :
              ground[k].position.z = ((k - 1) \div 5) * Unit

\* s without the entities Math.random has placed
WithoutRandom(s) ==
  [s EXCEPT !.entities = SelectSeq(@, LAMBDA e : e.type = "GRASS")]

(* C14: reset(d), called in any state, leaves the session-start state of   *)
(* d (origin, zero velocity, no jump, no phase, timers and latches clear,  *)
(* speed = startSpeed of d, score 0, lives 3, level 1, goldCollected 0,    *)
(* levelTarget 5, not won, no shake, no particles, entities of the slices  *)
(* 0..24 only); reset(d) called right after reset(d) changes nothing but   *)
(* the entities Math.random places.                                        *)
C14_ResetStartsSession ==
  [][last'.op = "reset"
       => /\ SessionStart(engine', engine'.difficulty)
          /\ (last.op = "reset" /\ engine'.difficulty = engine.difficulty)
               => WithoutRandom(engine') = WithoutRandom(engine)]_vars

\* reset has been called with a difficulty the engine was not constructed
\* with
C14_ResetToHard ==
  /\ last.op = "reset"
  /\ engine.difficulty = "HARD"
  /\ SessionStart(engine, "HARD")

----------------------------------------------------------------------------
(* C15: every slice coordinate z is generated at most once in a session,   *)
(* the slices of reset included: no two entities of the world share an id  *)
(* and no z holds more than one row of five ground tiles.                  *)
C15_SlicesGeneratedOnce ==
  /\ \A i, j \in DOMAIN engine.entities :
       engine.entities[i].id = engine.entities[j].id => i = j
  /\ \A i \in DOMAIN engine.entities :
       engine.entities[i].type = "GRASS"
         => Cardinality({j \in DOMAIN engine.entities :
                           /\ engine.entities[j].type = "GRASS"
                           /\ engine.entities[j].position.z
                                = engine.entities[i].position.z}) = 5

----------------------------------------------------------------------------
(* C19: no update lowers the current speed.                                *)
C19_SpeedNeverDecreases ==
  [][last'.op = "update"
       => engine'.currentSpeed >= engine.currentSpeed]_vars

\* on HARD the speed bump of the first level-up has been applied: the
\* speed (0.30) is above the target speed of level 2 (0.29)
C19_BumpedAboveTarget ==
  /\ last.op = "update"
  /\ engine.difficulty = "HARD"
  /\ engine.level = 2
  /\ engine.currentSpeed = 2500 + 500

(* C20: after every update |position.x| <= 1.8 * LANE_WIDTH and            *)
(* |velocity.x| <= MAX_SPEED_X; the update has either moved the player by  *)
(* its velocity, or clamped the position at a wall and then the velocity   *)
(* is 0.                                                                   *)
C20_LateralBounds ==
  [][Ran
       => LET p == engine'.player
              wall == (LANE_WIDTH * 18) \div 10
          IN  /\ Abs(p.position.x) <= wall
              /\ Abs(p.velocity.x) <= MAX_SPEED_X
              /\ \/ p.position.x = engine.player.position.x + p.velocity.x
                 \/ Abs(p.position.x) = wall /\ p.velocity.x = 0]_vars

\* the player has been stopped at the right wall with the key still down
C20_StoppedAtWall ==
  /\ last.op = "update" /\ last.input.right /\ ~last.input.left
  /\ engine.player.position.x = 21600
  /\ engine.player.velocity.x = 0


----------------------------------------------------------------------------
\* C16: the snapshot returned by getState is a point-in-time value copy:
\* after any later update or reset of the engine, the player, the entities
\* (with their collected flags) and the particles (with their life) that the
\* snapshot holds still have the values they had when getState was called.
C16_SnapshotIsValueCopy == held.taken => held.seen = held.frozen

----------------------------------------------------------------------------
\* C17: frame-loop cancellation.  Every update of the engine is the one
\* update of a requested frame callback of a mounted, playing GameCanvas
\* whose session has not ended; the frame whose snapshot shows lives <= 0
\* or gameWon calls onGameOver exactly once, draws nothing and requests no
\* further frame, any other frame draws and requests the next one; outside
\* a running session, and after teardown, no frame is requested, so no
\* further update or draw occurs until a new session is started.
FrameRan == ticks' = ticks + 1

SessionOver(s) == getState(s).lives <= 0 \/ getState(s).gameWon

C17_NoFrameRequested ==
  /\ app.gameOvers <= 1
  /\ (~app.mounted \/ app.appState # "PLAYING" \/ app.gameOvers > 0)
       => ~app.pending

C17_FrameStep ==
  /\ engine' # engine
       => \/ FrameRan /\ last'.op = "update" /\ last'.dt = FrameMs
          \/ /\ last'.op = "reset"
             /\ app'.sessions = app.sessions + 1 /\ app'.gameOvers = 0
  /\ FrameRan
       => /\ app.mounted /\ app.appState = "PLAYING" /\ app.pending
          /\ app.gameOvers = 0
          /\ last'.op = "update" /\ last'.dt = FrameMs /\ ~last'.input.phase
          /\ IF SessionOver(engine')
             THEN /\ app'.gameOvers = 1
                  /\ ~app'.drawn /\ ~app'.pending
                  /\ app'.appState = "GAME_OVER"
                  /\ app'.finalScore = engine'.score
             ELSE /\ app'.gameOvers = 0
                  /\ app'.drawn /\ app'.pending
                  /\ app'.appState = "PLAYING"
  /\ ~FrameRan
       => /\ app'.gameOvers <= app.gameOvers
          /\ app'.drawn => app.drawn
          /\ app'.pending /\ ~app.pending => last'.op = "reset" /\ ticks' = 0

C17_FrameLoopCancellation == []C17_NoFrameRequested /\ [][C17_FrameStep]_vars

\* a second session has ended, by a win or a loss, with exactly one call
\* of onGameOver and no frame left requested
C17_SecondSessionEnded ==
  /\ app.sessions = 2 /\ app.appState = "GAME_OVER"
  /\ app.gameOvers = 1 /\ ~app.pending /\ ~app.drawn
  /\ SessionOver(engine)

----------------------------------------------------------------------------
\* C18: after any sequence of session ends that starts from the empty list,
\* the high-score list has at most 5 records, is in non-increasing score
\* order, and holds the 5 greatest scores submitted so far (all of them
\* while fewer than 5 were submitted), each one as often as it was
\* submitted as far as the 5 places go.
SubmittedAbove(v) ==
  BagCardinality([w \in {x \in DOMAIN app.submitted : x > v}
                    |-> app.submitted[w]])

HeldTimes(v) ==
  Cardinality({i \in DOMAIN app.highScores : app.highScores[i].score = v})

C18_TopFive ==
  LET hs == app.highScores
      kept(v) == KeptScores - Min(KeptScores, SubmittedAbove(v))
  IN  /\ Len(hs) <= KeptScores
      /\ Len(hs) = Min(KeptScores, BagCardinality(app.submitted))
      /\ \A i \in 1..(Len(hs) - 1) : hs[i].score >= hs[i + 1].score
      /\ \A i \in DOMAIN hs : hs[i].score \in DOMAIN app.submitted
      /\ \A v \in DOMAIN app.submitted :
           HeldTimes(v) = Min(app.submitted[v], kept(v))

\* seven scores were submitted and the list has dropped a lower one
C18_LowerScoreDropped ==
  /\ BagCardinality(app.submitted) = ScoreSessions
  /\ Len(app.highScores) = KeptScores
  /\ \E v \in DOMAIN app.submitted : v < app.highScores[KeptScores].score
  /\ app.highScores[1].score > app.highScores[KeptScores].score


----------------------------------------------------------------------------
\* C21: slice generation policy.  Whatever one generation of a slice places
\* besides the ground lies at z > 10; its ground-level hazard is STONE or
\* TNT at level 1, CREEPER only at level >= 2, SKELETON only at level >= 3;
\* a stacked hazard (y = 1) is STONE or TNT and lies directly above a STONE
\* or TNT hazard of the same generation; and no generation places both a
\* hazard and a collectible.

\* the entities of a list that are not ground tiles
Placed(entities) == SelectSeq(entities, LAMBDA e : e.type # "GRASS")

\* placed: what one generation of a slice has placed, at the given level
SlicePolicy(placed, level) ==
  /\ \A i \in DOMAIN placed :
       LET e == placed[i]
       IN  /\ e.position.z > 10 * Unit
           /\ e.type \in {"GOLD", "STONE", "TNT", "CREEPER", "SKELETON"}
           /\ (e.type # "GOLD" /\ e.position.y = 0) =>
                /\ e.type = "CREEPER" => level >= 2
                /\ e.type = "SKELETON" => level >= 3
           /\ (e.type # "GOLD" /\ e.position.y # 0) =>
                /\ e.position.y = Unit
                /\ e.type \in {"STONE", "TNT"}
                /\ \E j \in DOMAIN placed :
                     /\ placed[j].type \in {"STONE", "TNT"}
                     /\ placed[j].position
                          = [e.position EXCEPT !.y = 0]
  /\ \A i, j \in DOMAIN placed :
       ~(placed[i].type = "GOLD" /\ placed[j].type # "GOLD")

\* the entities update's generation has appended: those after the ones the
\* cleanup has kept
Appended ==
  LET kept == Cardinality({i \in DOMAIN engine.entities :
                             engine.entities[i].position.z > KeptBeyond})
  IN  SubSeq(engine'.entities, kept + 1, Len(engine'.entities))

C21_GenerationStep ==
  /\ Ran =>
       /\ Len(Appended) \in {0, 5, 6, 7}
       /\ SlicePolicy(Placed(Appended), engine'.level)
  /\ last'.op = "reset" =>
       LET placed == Placed(engine'.entities)
       IN  \A z \in 0..(InitialSlices - 1) :
             SlicePolicy(SelectSeq(placed,
                                   LAMBDA e : e.position.z = z * Unit), 1)

C21_SlicePolicy == [][C21_GenerationStep]_vars

\* at level 3 the world holds a SKELETON, a CREEPER and a TNT stacked on a
\* STONE
C21_EveryKindPlaced ==
  LET placed == Placed(engine.entities)
      Has(type, y) == \E i \in DOMAIN placed :
                        placed[i].type = type /\ placed[i].position.y = y
  IN  /\ engine.level = 3
      /\ Has("SKELETON", 0) /\ Has("CREEPER", 0)
      /\ Has("STONE", 0) /\ Has("TNT", Unit)

----------------------------------------------------------------------------
\* C22: the collision test dispatches a collision for a non-collected entity
\* iff |dx| < (0.6 + size)/2 and |dy| < (0.9 + size)/2 and
\* |dz| < (0.6 + size)/2 hold at once; a size-1 entity at the player's exact
\* position collides; an entity whose offset along one axis is at least
\* that axis's half-extent sum does not collide, whatever the other axes.
C22_CollisionTest ==
  (probe.fn = "checkCollisions" /\ probe.done) =>
    LET e  == probe.in.entity
        p  == probe.in.player.position
        dx == Abs(p.x - e.position.x)
        dy == Abs(p.y - e.position.y)
        dz == Abs(p.z - e.position.z)
        \* twice the half-extent sums, in ten-thousandths
        sx == 6000 + e.size
        sy == 9000 + e.size
        sz == 6000 + e.size
    IN  /\ ~e.collected =>
             (probe.out <=> (2 * dx < sx /\ 2 * dy < sy /\ 2 * dz < sz))
        /\ (~e.collected /\ e.size = Unit /\ e.position = p) => probe.out
        /\ (2 * dx >= sx \/ 2 * dy >= sy \/ 2 * dz >= sz) => ~probe.out
        /\ e.collected => ~probe.out

\* a size-1 entity at the player's exact position has collided
C22_AtPlayerPosition ==
  /\ probe.fn = "checkCollisions" /\ probe.done /\ probe.out
  /\ probe.in.entity.size = Unit
  /\ probe.in.entity.position = probe.in.player.position

----------------------------------------------------------------------------
\* C23: for all depths d the fog factor of applyFog is in [0,1], is 0 for
\* every d <= 5, is 1 for every d >= FOG_DISTANCE (25), and is
\* monotonically non-decreasing in d.
C23_FogFactor ==
  (probe.fn = "applyFog" /\ probe.done) =>
    LET d == probe.in.near
        f == probe.out.near
    IN  /\ 0 <= f /\ f <= Unit
        /\ d <= 5 * 100 => f = 0
        /\ d >= 25 * 100 => f = Unit
        /\ probe.in.near <= probe.in.far => f <= probe.out.far

\* a depth inside the fog ramp against a depth of FOG_DISTANCE
C23_RampAndFull ==
  /\ probe.fn = "applyFog" /\ probe.done
  /\ probe.in.near = 10 * 100 /\ probe.in.far = FOG_DISTANCE * 100
  /\ 0 < probe.out.near /\ probe.out.near < probe.out.far
  /\ probe.out.far = Unit

----------------------------------------------------------------------------
\* C24: project returns null for every point whose depth after the roll and
\* pitch rotations is <= 0.1, and otherwise a screen point with that depth
\* and scale = FOV / depth (so it never divides by a depth <= 0.1); and
\* the callers (cube corners, the figure's box faces, particles and name
\* labels) draw nothing from a null result: every corner of every face
\* they draw is a screen point.
C24_NearPlane ==
  (probe.fn = "project" /\ probe.done) =>
    LET depth == Rotated(probe.in.p, Camera, probe.in.tilt, probe.in.pitch).z
        drawn == probe.out.cube \o probe.out.part \o probe.out.particle
    IN  /\ depth <= 1000 <=> probe.out.point = Null
        /\ depth > 1000 =>
             /\ DOMAIN probe.out.point = {"x", "y", "scale", "dist"}
             /\ probe.out.point.dist = depth
             /\ probe.out.point.scale = (450 * Unit * 100) \div depth
        /\ \A i \in DOMAIN drawn : \A k \in DOMAIN drawn[i].points :
             /\ drawn[i].points[k] # Null
             /\ drawn[i].points[k].dist > 1000
        /\ probe.out.point = Null => probe.out.particle = <<>>

\* the centre is in front of the near plane and some corners are not: the
\* block is skipped, the part is drawn without the faces that have such a
\* corner, the particle is drawn
C24_AcrossTheNearPlane ==
  /\ probe.fn = "project" /\ probe.done
  /\ probe.out.point # Null
  /\ probe.out.cube = <<>>
  /\ Len(probe.out.part) \in 1..5
  /\ Len(probe.out.particle) = 1
  /\ probe.in.tilt.rad # 0 /\ probe.in.pitch.rad # 0

----------------------------------------------------------------------------
\* C25: in the running application, pressing the B key during play while
\* the phase cooldown is <= 0 activates the phase ability: player.phaseActive
\* is true after the next frame.
C25_FrameAfterB ==
  (FrameRan /\ "KeyB" \in app.unhandled /\ engine.player.phaseCooldown <= 0)
    => engine'.player.phaseActive

C25_BActivatesPhase == [][C25_FrameAfterB]_vars

----------------------------------------------------------------------------
\* C26: the player never runs into empty space: after reset and after every
\* update, at every difficulty, the five ground tiles of every integer
\* slice coordinate z with player.position.z <= z <= player.position.z + 19
\* are in the entity list.
C26_GroundAhead ==
  LET pz     == engine.player.position.z
      tiles  == {<<engine.entities[i].position.z, engine.entities[i].position.x>> :
                   i \in {j \in DOMAIN engine.entities :
                            engine.entities[j].type = "GRASS"}}
      first  == (pz + Unit - 1) \div Unit
      final  == (pz + 19 * Unit) \div Unit
  IN  \A z \in first..final : \A x \in -2..2 :
        <<z * Unit, x * LANE_WIDTH>> \in tiles

\* on HARD the player has run past the slices of reset, at level 3 or more
C26_FarOnHard ==
  /\ engine.difficulty = "HARD" /\ engine.level >= 3
  /\ engine.player.position.z > 20 * Unit
  /\ engine.lastGenZ > 40
  /\ last.op = "update"

----------------------------------------------------------------------------
\* C27: after every update called with dt > 0 (and after reset),
\* player.phaseActive is true exactly when player.phaseTimeRemaining > 0,
\* and phaseActive implies phaseCooldown > 0.
C27_PhaseFlags ==
  /\ engine.player.phaseActive <=> engine.player.phaseTimeRemaining > 0
  /\ engine.player.phaseActive => engine.player.phaseCooldown > 0

\* an update has run the timer of an active phase down, not out
C27_PhaseRunning ==
  /\ last.op = "update" /\ last.dt > 0
  /\ engine.player.phaseActive
  /\ engine.player.phaseTimeRemaining < PhaseDuration
  /\ engine.player.phaseCooldown < PhaseCooldown

----------------------------------------------------------------------------
\* C28: win and loss are mutually exclusive terminal states: no snapshot
\* reachable by reset followed by updates has both gameOver = true
\* (lives <= 0) and gameWon = true.
C28_WinXorLoss == ~(getState(engine).gameOver /\ getState(engine).gameWon)

----------------------------------------------------------------------------
\* C29: the speed cap is respected: in every reachable state the current
\* speed is at most the difficulty's maxSpeed, and on EASY it stays equal
\* to startSpeed.
C29_SpeedCap ==
  LET settings == DIFFICULTY_SETTINGS[engine.difficulty]
  IN  /\ engine.currentSpeed <= settings.maxSpeed
      /\ engine.difficulty = "EASY" => engine.currentSpeed = settings.startSpeed

\* on HARD all three level-up bumps have been applied: 0.25 + 3 * 0.05
C29_ThreeBumps ==
  /\ engine.difficulty = "HARD" /\ engine.level = 4
  /\ engine.currentSpeed = 2500 + 3 * 500
  /\ last.op = "update"

----------------------------------------------------------------------------
\* C30: within a session the level never exceeds 4: the game is won, and
\* update a no-op, once 25 gold blocks are collected, while level 5 needs
\* 5 + 8 + 11 + 14 = 38.
C30_LevelAtMostFour == engine.level \in 1..4

\* the game is won at level 4
C30_WonAtLevelFour ==
  /\ engine.level = 4 /\ engine.gameWon /\ engine.score = 250
  /\ engine.levelTarget = BASE_LEVEL_TARGET + 3 * LEVEL_TARGET_INCREMENT

====
